---- MODULE Spec2Model ----
(***************************************************************************)
(* Work-item query planner and date-filter resolver of AzureDevOpsTool     *)
(* (src/azdo_tools.py).  Text is modelled as sequences of one-character    *)
(* strings, calendar days as [year, month, day] records with the           *)
(* proleptic Gregorian arithmetic of Python's datetime.                    *)
(***************************************************************************)
EXTENDS Integers, Sequences, FiniteSets, TLC

(***************************************************************************)
(* Text: str.lower, str.strip and the prefix matching of re.match          *)
(***************************************************************************)
DigitChars == <<"0", "1", "2", "3", "4", "5", "6", "7", "8", "9">>
UpperChars == <<"A", "B", "C", "D", "E", "F", "G", "H", "I", "J", "K", "L", "M", "N", "O", "P", "Q", "R", "S", "T", "U", "V", "W", "X", "Y", "Z">>
LowerChars == <<"a", "b", "c", "d", "e", "f", "g", "h", "i", "j", "k", "l", "m", "n", "o", "p", "q", "r", "s", "t", "u", "v", "w", "x", "y", "z">>

IsDigit(c) == \E k \in 1..10 : DigitChars[k] = c
DigitVal(c) == (CHOOSE k \in 1..10 : DigitChars[k] = c) - 1
\* \s of the regular expressions, and the characters str.strip removes
IsSpace(c) == c \in {" ", "\t", "\n", "\r"}

SetMin(S) == CHOOSE x \in S : \A y \in S : x <= y
SetMax(S) == CHOOSE x \in S : \A y \in S : y <= x

LowerChar(c) ==
    IF \E k \in 1..26 : UpperChars[k] = c
    THEN LowerChars[CHOOSE k \in 1..26 : UpperChars[k] = c]
    ELSE c
\* variant: the text is compared as written
lower_as_written(s) == s
\* str.lower
lower(s) == [k \in 1..Len(s) |-> LowerChar(s[k])]
strip(s) ==
    LET keep == {k \in 1..Len(s) : ~IsSpace(s[k])}
    IN  IF keep = {} THEN <<>> ELSE SubSeq(s, SetMin(keep), SetMax(keep))

\* the literal lit occurs in s starting at position i
HasAt(s, i, lit) ==
    /\ i + Len(lit) - 1 <= Len(s)
    /\ \A k \in 1..Len(lit) : s[i + k - 1] = lit[k]
\* length of the longest run of digits (\d+, greedy) starting at position i
DigitRun(s, i) ==
    SetMin({j \in i..(Len(s) + 1) : j = Len(s) + 1 \/ ~IsDigit(s[j])}) - i
\* length of the longest run of whitespace (\s+, greedy) starting at position i
SpaceRun(s, i) ==
    SetMin({j \in i..(Len(s) + 1) : j = Len(s) + 1 \/ ~IsSpace(s[j])}) - i
\* (\d{4}-\d{2}-\d{2}) at position i
IsDateAt(s, i) ==
    /\ i + 9 <= Len(s)
    /\ \A k \in {0, 1, 2, 3, 5, 6, 8, 9} : IsDigit(s[i + k])
    /\ s[i + 4] = "-"
    /\ s[i + 7] = "-"

RECURSIVE int(_)
\* int(match.group(1)) of a run of decimal digits
int(ds) ==
    IF ds = <<>> THEN 0
    ELSE 10 * int(SubSeq(ds, 1, Len(ds) - 1)) + DigitVal(ds[Len(ds)])

(***************************************************************************)
(* Calendar: datetime arithmetic, replace, weekday and strftime            *)
(***************************************************************************)
Date(y, m, d) == [year |-> y, month |-> m, day |-> d]

is_leap(y) == y % 4 = 0 /\ (y % 100 # 0 \/ y % 400 = 0)
days_in_month(y, m) ==
    IF m = 2 THEN (IF is_leap(y) THEN 29 ELSE 28)
    ELSE IF m \in {4, 6, 9, 11} THEN 30 ELSE 31
days_before_year(y) ==
    (y - 1) * 365 + ((y - 1) \div 4) - ((y - 1) \div 100) + ((y - 1) \div 400)
RECURSIVE days_before_month(_, _)
days_before_month(y, m) ==
    IF m = 1 THEN 0 ELSE days_before_month(y, m - 1) + days_in_month(y, m - 1)
\* date.toordinal: 0001-01-01 is day 1
toordinal(t) == days_before_year(t.year) + days_before_month(t.year, t.month) + t.day

\* date.fromordinal, by the 400/100/4/1-year cycles
fromordinal(n) ==
    LET n0   == n - 1
        n400 == n0 \div 146097
        r400 == n0 % 146097
        n100 == r400 \div 36524
        r100 == r400 % 36524
        n4   == r100 \div 1461
        r4   == r100 % 1461
        n1   == r4 \div 365
        r1   == r4 % 365
        y    == n400 * 400 + 1 + n100 * 100 + n4 * 4 + n1
    IN  IF n1 = 4 \/ n100 = 4 THEN Date(y - 1, 12, 31)
        ELSE LET m == CHOOSE mm \in 1..12 :
                        /\ days_before_month(y, mm) <= r1
                        /\ r1 < days_before_month(y, mm) + days_in_month(y, mm)
             IN  Date(y, m, r1 - days_before_month(y, m) + 1)

\* variant: Sunday is 0
weekday_sunday(t) == toordinal(t) % 7
\* date.weekday(): Monday is 0
weekday(t) == (toordinal(t) + 6) % 7

\* today - timedelta(days=n) raises OverflowError when the result would lie
\* before 0001-01-01 (or n exceeds the timedelta range)
SubOverflows(t, n) == n > 999999999 \/ toordinal(t) - n < 1
\* variant: the days are added instead of subtracted
SubDays_forward(t, n) == fromordinal(toordinal(t) + n)
SubDays(t, n) == fromordinal(toordinal(t) - n)

\* today.replace(year=y, month=m, day=d) raises ValueError for a day the
\* target month does not have, or a year outside 1..9999
ReplaceRaises(y, m, d) ==
    \/ y < 1 \/ y > 9999
    \/ m < 1 \/ m > 12
    \/ d < 1 \/ d > days_in_month(y, m)

Pow10(k) == IF k = 0 THEN 1 ELSE IF k = 1 THEN 10 ELSE IF k = 2 THEN 100 ELSE 1000
Pad(n, w) == [k \in 1..w |-> DigitChars[((n \div Pow10(w - k)) % 10) + 1]]
\* strftime('%Y-%m-%d')
strftime(t) == Pad(t.year, 4) \o <<"-">> \o Pad(t.month, 2) \o <<"-">> \o Pad(t.day, 2)

(***************************************************************************)
(* AzureDevOpsTool._parse_date_filter                                      *)
(***************************************************************************)
kw_today      == <<"t", "o", "d", "a", "y">>
kw_yesterday  == <<"y", "e", "s", "t", "e", "r", "d", "a", "y">>
kw_this_week  == <<"t", "h", "i", "s", " ", "w", "e", "e", "k">>
kw_last_week  == <<"l", "a", "s", "t", " ", "w", "e", "e", "k">>
kw_this_month == <<"t", "h", "i", "s", " ", "m", "o", "n", "t", "h">>
kw_last_month == <<"l", "a", "s", "t", " ", "m", "o", "n", "t", "h">>
kw_this_year  == <<"t", "h", "i", "s", " ", "y", "e", "a", "r">>
kw_last_year  == <<"l", "a", "s", "t", " ", "y", "e", "a", "r">>
Keywords ==
    {kw_today, kw_yesterday, kw_this_week, kw_last_week,
     kw_this_month, kw_last_month, kw_this_year, kw_last_year}
lit_last   == <<"l", "a", "s", "t", " ">>
lit_day    == <<" ", "d", "a", "y">>
lit_week   == <<" ", "w", "e", "e", "k">>
lit_month  == <<" ", "m", "o", "n", "t", "h">>
lit_to     == <<"t", "o">>
lit_since  == <<"s", "i", "n", "c", "e">>
lit_before == <<"b", "e", "f", "o", "r", "e">>

\* what a call yields: the returned pair, or the exception it raises
Ok(f, t) == [exc |-> "none", from_date |-> f, to_date |-> t]
Raised(e) == [exc |-> e, from_date |-> <<>>, to_date |-> <<>>]

\* the if/elif chain of exact keywords; a subtraction that leaves the range of
\* dates raises OverflowError, a replace to a year before 1 raises ValueError
KeywordBranch(df, today) ==
    LET ts == strftime(today)
        first == Date(today.year, today.month, 1)
    IN  IF df = kw_today THEN Ok(ts, ts)
        ELSE IF df = kw_yesterday THEN
            IF SubOverflows(today, 1) THEN Raised("OverflowError")
            ELSE LET yesterday == SubDays(today, 1)
                 IN  Ok(strftime(yesterday), strftime(yesterday))
        ELSE IF df = kw_this_week THEN
            IF SubOverflows(today, weekday(today)) THEN Raised("OverflowError")
            ELSE LET start_of_week == SubDays(today, weekday(today))
                 IN  Ok(strftime(start_of_week), ts)
        ELSE IF df = kw_last_week THEN
            IF SubOverflows(today, weekday(today) + 1) THEN Raised("OverflowError")
            ELSE LET end_of_last_week == SubDays(today, weekday(today) + 1)
                 IN  IF SubOverflows(end_of_last_week, 6) THEN Raised("OverflowError")
                     ELSE LET start_of_last_week == SubDays(end_of_last_week, 6)
                          IN  Ok(strftime(start_of_last_week), strftime(end_of_last_week))
        ELSE IF df = kw_this_month THEN Ok(strftime(first), ts)
        ELSE IF df = kw_last_month THEN
            IF SubOverflows(first, 1) THEN Raised("OverflowError")
            ELSE LET end_of_last_month == SubDays(first, 1)
                     start_of_last_month ==
                         Date(end_of_last_month.year, end_of_last_month.month, 1)
                 IN  Ok(strftime(start_of_last_month), strftime(end_of_last_month))
        ELSE IF df = kw_this_year THEN Ok(strftime(Date(today.year, 1, 1)), ts)
        ELSE \* 'last year'
            IF ReplaceRaises(today.year - 1, 1, 1) THEN Raised("ValueError")
            ELSE Ok(strftime(Date(today.year - 1, 1, 1)), strftime(Date(today.year - 1, 12, 31)))

\* re.match(r'last (\d+) <unit>s?', df): unit is " day", " week" or " month"
last_n_match(df, unit) ==
    /\ HasAt(df, 1, lit_last)
    /\ DigitRun(df, 6) >= 1
    /\ HasAt(df, 6 + DigitRun(df, 6), unit)
\* int(match.group(1))
last_n_group(df) == int(SubSeq(df, 6, 5 + DigitRun(df, 6)))

LastDaysBranch(df, today) ==
    LET days == last_n_group(df)
    IN  IF SubOverflows(today, days) THEN Raised("OverflowError")
        ELSE Ok(strftime(SubDays(today, days)), strftime(today))
LastWeeksBranch(df, today) ==
    LET weeks == last_n_group(df)
    IN  IF SubOverflows(today, 7 * weeks) THEN Raised("OverflowError")
        ELSE Ok(strftime(SubDays(today, 7 * weeks)), strftime(today))

RECURSIVE CrossYears(_, _)
\* while month <= 0: month += 12; year -= 1
CrossYears(year, month) ==
    IF month <= 0 THEN CrossYears(year - 1, month + 12) ELSE <<year, month>>
LastMonthsBranch(df, today) ==
    LET ym == CrossYears(today.year, today.month - last_n_group(df))
    IN  IF ReplaceRaises(ym[1], ym[2], today.day) THEN Raised("ValueError")
        ELSE Ok(strftime(Date(ym[1], ym[2], today.day)), strftime(today))

\* re.match(r'(\d{4}-\d{2}-\d{2})\s+to\s+(\d{4}-\d{2}-\d{2})', df)
date_range_match(df) ==
    /\ IsDateAt(df, 1)
    /\ SpaceRun(df, 11) >= 1
    /\ HasAt(df, 11 + SpaceRun(df, 11), lit_to)
    /\ SpaceRun(df, 13 + SpaceRun(df, 11)) >= 1
    /\ IsDateAt(df, 13 + SpaceRun(df, 11) + SpaceRun(df, 13 + SpaceRun(df, 11)))
\* variant: the two dates are returned in each other's place
DateRangeBranch_swapped(df) ==
    LET p == 13 + SpaceRun(df, 11) + SpaceRun(df, 13 + SpaceRun(df, 11))
    IN  Ok(SubSeq(df, p, p + 9), SubSeq(df, 1, 10))
\* from_date = group(1), to_date = group(2)
DateRangeBranch(df) ==
    LET p == 13 + SpaceRun(df, 11) + SpaceRun(df, 13 + SpaceRun(df, 11))
    IN  Ok(SubSeq(df, 1, 10), SubSeq(df, p, p + 9))

\* variant: the date is searched anywhere in the text (re.search)
specific_date_search(df) == \E i \in 1..Len(df) : IsDateAt(df, i)
\* re.match(r'(\d{4}-\d{2}-\d{2})', df)
specific_date_match(df) == IsDateAt(df, 1)
SpecificDateBranch(df) == Ok(SubSeq(df, 1, 10), SubSeq(df, 1, 10))

\* variant: the whole text must match (re.fullmatch)
since_date_fullmatch(df) ==
    /\ HasAt(df, 1, lit_since)
    /\ SpaceRun(df, 6) >= 1
    /\ IsDateAt(df, 6 + SpaceRun(df, 6))
    /\ Len(df) = 15 + SpaceRun(df, 6)
\* re.match(r'since\s+(\d{4}-\d{2}-\d{2})', df)
since_date_match(df) ==
    /\ HasAt(df, 1, lit_since)
    /\ SpaceRun(df, 6) >= 1
    /\ IsDateAt(df, 6 + SpaceRun(df, 6))
SinceBranch(df, today) ==
    LET p == 6 + SpaceRun(df, 6) IN Ok(SubSeq(df, p, p + 9), strftime(today))

\* re.match(r'before\s+(\d{4}-\d{2}-\d{2})', df)
before_date_match(df) ==
    /\ HasAt(df, 1, lit_before)
    /\ SpaceRun(df, 7) >= 1
    /\ IsDateAt(df, 7 + SpaceRun(df, 7))
\* variant: the lookback window is 366 days
BeforeBranch_366(df, today) ==
    LET p == 7 + SpaceRun(df, 7)
    IN  IF SubOverflows(today, 366) THEN Raised("OverflowError")
        ELSE Ok(strftime(SubDays(today, 366)), SubSeq(df, p, p + 9))
\* to_date = group(1), from_date = today - 365 days
BeforeBranch(df, today) ==
    LET p == 7 + SpaceRun(df, 7)
    IN  IF SubOverflows(today, 365) THEN Raised("OverflowError")
        ELSE Ok(strftime(SubDays(today, 365)), SubSeq(df, p, p + 9))

\* variant: a window of 31 days
DefaultBranch_31(today) ==
    IF SubOverflows(today, 31) THEN Raised("OverflowError")
    ELSE Ok(strftime(SubDays(today, 31)), strftime(today))
\* default: the last 30 days
DefaultBranch(today) ==
    IF SubOverflows(today, 30) THEN Raised("OverflowError")
    ELSE Ok(strftime(SubDays(today, 30)), strftime(today))

\* variant: the single date is tried before the range
FormOf_date_first(df) ==
    IF df \in Keywords THEN "keyword"
    ELSE IF last_n_match(df, lit_day) THEN "last_days"
    ELSE IF last_n_match(df, lit_week) THEN "last_weeks"
    ELSE IF last_n_match(df, lit_month) THEN "last_months"
    ELSE IF specific_date_match(df) THEN "date"
    ELSE IF date_range_match(df) THEN "range"
    ELSE IF since_date_match(df) THEN "since"
    ELSE IF before_date_match(df) THEN "before"
    ELSE "default"
\* the form of the normalised text that decides the branch, in the order tried
FormOf(df) ==
    IF df \in Keywords THEN "keyword"
    ELSE IF last_n_match(df, lit_day) THEN "last_days"
    ELSE IF last_n_match(df, lit_week) THEN "last_weeks"
    ELSE IF last_n_match(df, lit_month) THEN "last_months"
    ELSE IF date_range_match(df) THEN "range"
    ELSE IF specific_date_match(df) THEN "date"
    ELSE IF since_date_match(df) THEN "since"
    ELSE IF before_date_match(df) THEN "before"
    ELSE "default"

\* now is the value datetime.now() yields in the call: a day and a time of day
_parse_date_filter(date_filter, now) ==
    LET today == Date(now.year, now.month, now.day)
        df    == strip(lower(date_filter))
        form  == FormOf(df)
    IN  CASE form = "keyword"     -> KeywordBranch(df, today)
          [] form = "last_days"   -> LastDaysBranch(df, today)
          [] form = "last_weeks"  -> LastWeeksBranch(df, today)
          [] form = "last_months" -> LastMonthsBranch(df, today)
          [] form = "range"       -> DateRangeBranch(df)
          [] form = "date"        -> SpecificDateBranch(df)
          [] form = "since"       -> SinceBranch(df, today)
          [] form = "before"      -> BeforeBranch(df, today)
          [] OTHER                -> DefaultBranch(today)

(***************************************************************************)
(* Values: Optional arguments, query text, JSON records                    *)
(***************************************************************************)
\* an Optional[str] argument: None, or a string
None == [some |-> FALSE, v |-> ""]
Some(s) == [some |-> TRUE, v |-> s]
\* Python truthiness of an Optional[str]: neither None nor ''
Truthy(o) == o.some /\ o.v # ""
\* the date_filter argument is text the resolver reads character by character
NoneChars == [some |-> FALSE, v |-> <<>>]
TruthyChars(o) == o.some /\ Len(o.v) > 0

RECURSIVE Str(_)
\* the string a sequence of characters spells
Str(cs) == IF cs = <<>> THEN "" ELSE cs[1] \o Str(Tail(cs))

\* Query text is the sequence of the pieces an f-string or a concatenation puts
\* together: the text is their concatenation, an interpolated value is one piece.
Contains(q, clause) ==
    \E k \in 1..(Len(q) - Len(clause) + 1) : SubSeq(q, k, k + Len(clause) - 1) = clause

(***************************************************************************)
(* AzureDevOpsTool.list_work_items: the plan and the query text            *)
(***************************************************************************)
batch_size == 200

SelectFrom ==
    "SELECT [System.Id], [System.Title], [System.State], [System.WorkItemType], [System.CreatedDate], [System.ChangedDate], [System.AssignedTo], [System.Tags] FROM WorkItems WHERE [System.TeamProject] = '"
ProjectClause(project_to_use) == <<SelectFrom, project_to_use, "'">>
TypeClause(work_item_type) == <<"[System.WorkItemType] = '", work_item_type, "'">>
StateClause(state) == <<"[System.State] = '", state, "'">>
FromClause(from_date) == <<"AND [System.CreatedDate] >= '", Str(from_date), "'">>
ToClause(to_date) == <<"[System.CreatedDate] <= '", Str(to_date), "'">>
OrderBy == " ORDER BY [System.CreatedDate] DESC"

\* variant: the bounds are placed in each other's clause
DateFilterWiql_swapped(parsed) ==
    FromClause(parsed.to_date) \o <<" AND ">> \o ToClause(parsed.from_date)
\* the date_filter_wiql / client_side_date_filter decision; parsed is the
\* resolver's result when it was called, and is read in that case only
DateFilterWiql(parsed) ==
    IF Len(parsed.from_date) > 0 /\ Len(parsed.to_date) > 0
    THEN FromClause(parsed.from_date) \o <<" AND ">> \o ToClause(parsed.to_date)
    ELSE IF Len(parsed.from_date) > 0 THEN FromClause(parsed.from_date)
    ELSE IF Len(parsed.to_date) > 0 THEN <<"AND ">> \o ToClause(parsed.to_date)
    ELSE <<>>
ClientSideDateFilter(query_string, date_filter, parsed) ==
    IF TruthyChars(date_filter) /\ ~Truthy(query_string)
    THEN (IF Len(parsed.from_date) > 0 \/ Len(parsed.to_date) > 0
          THEN NoneChars ELSE date_filter)
    ELSE IF TruthyChars(date_filter) /\ Truthy(query_string) THEN date_filter
    ELSE NoneChars

\* variant: the criteria are tested with 'is not None' instead of truthiness
Filters_not_none(work_item_type, state) ==
    (IF work_item_type.some THEN <<TypeClause(work_item_type.v)>> ELSE <<>>)
    \o (IF state.some THEN <<StateClause(state.v)>> ELSE <<>>)
\* variant: the state criterion is appended before the type criterion
Filters_state_first(work_item_type, state) ==
    (IF Truthy(state) THEN <<StateClause(state.v)>> ELSE <<>>)
    \o (IF Truthy(work_item_type) THEN <<TypeClause(work_item_type.v)>> ELSE <<>>)
\* filters = []; one entry per supplied criterion, in this order
Filters(work_item_type, state) ==
    (IF Truthy(work_item_type) THEN <<TypeClause(work_item_type.v)>> ELSE <<>>)
    \o (IF Truthy(state) THEN <<StateClause(state.v)>> ELSE <<>>)
RECURSIVE JoinClauses(_)
\* " AND ".join(filters)
JoinClauses(filters) ==
    IF filters = <<>> THEN <<>>
    ELSE IF Len(filters) = 1 THEN filters[1]
    ELSE filters[1] \o <<" AND ">> \o JoinClauses(Tail(filters))
\* base_query, built when no custom query_string is given
BuildQuery(project_to_use, work_item_type, state, date_filter_wiql) ==
    LET filters == Filters(work_item_type, state)
    IN  ProjectClause(project_to_use)
        \o (IF filters # <<>> THEN <<" AND ">> \o JoinClauses(filters) ELSE <<>>)
        \o (IF date_filter_wiql # <<>> THEN <<" ">> \o date_filter_wiql ELSE <<>>)
        \o <<OrderBy>>
\* variant: the custom query does not override the constructed one
QueryText_ignoring_raw(query_string, project_to_use, work_item_type, state, date_filter_wiql) ==
    BuildQuery(project_to_use, work_item_type, state, date_filter_wiql)
\* the query text posted to the wiql endpoint
QueryText(query_string, project_to_use, work_item_type, state, date_filter_wiql) ==
    IF Truthy(query_string) THEN <<query_string.v>>
    ELSE BuildQuery(project_to_use, work_item_type, state, date_filter_wiql)

(***************************************************************************)
(* JSON values of the remote service and AzureDevOpsTool._filter_by_date   *)
(***************************************************************************)
JNull == [t |-> "null"]
JInt(n) == [t |-> "int", n |-> n]
JStr(cs) == [t |-> "str", s |-> cs]
JDict(f) == [t |-> "dict", d |-> f]
\* Python truthiness of a JSON value
Falsy(v) ==
    \/ v.t = "null"
    \/ v.t = "str" /\ v.s = <<>>
    \/ v.t = "int" /\ v.n = 0
    \/ v.t = "dict" /\ DOMAIN v.d = {}

RECURSIVE split(_, _)
\* s.split(sep) for a one-character separator
split(s, sep) ==
    LET cuts == {k \in 1..Len(s) : s[k] = sep}
    IN  IF cuts = {} THEN <<s>>
        ELSE <<SubSeq(s, 1, SetMin(cuts) - 1)>>
             \o split(SubSeq(s, SetMin(cuts) + 1, Len(s)), sep)

RECURSIVE Walk(_, _)
\* the loop over the parts of a dotted field name
Walk(value, parts) ==
    IF parts = <<>> THEN value
    ELSE IF value.t = "dict" /\ Str(parts[1]) \in DOMAIN value.d
         THEN Walk(value.d[Str(parts[1])], Tail(parts))
         ELSE JNull
item_date_str(item, date_field) ==
    IF \E k \in 1..Len(date_field) : date_field[k] = "."
    THEN Walk(item, split(date_field, "."))
    ELSE IF Str(date_field) \in DOMAIN item.d THEN item.d[Str(date_field)] ELSE JNull

\* two-digit and four-digit numbers at a position of a text
Num2(s, i) == 10 * DigitVal(s[i]) + DigitVal(s[i + 1])
Num4(s, i) == 100 * Num2(s, i) + Num2(s, i + 2)
IsTimeAt(s, i) ==
    /\ i + 8 <= Len(s)
    /\ s[i] = "T"
    /\ \A k \in {1, 2, 4, 5, 7, 8} : IsDigit(s[i + k])
    /\ s[i + 3] = ":" /\ s[i + 6] = ":"
    /\ Num2(s, i + 1) < 24 /\ Num2(s, i + 4) < 60 /\ Num2(s, i + 7) < 60
\* date_parser.parse on the shapes the service and the resolver produce:
\* YYYY-MM-DD, YYYY-MM-DDTHH:MM:SS and YYYY-MM-DDTHH:MM:SSZ (time-zone aware);
\* a day the calendar does not have, or any other text here, makes it raise
NoDateTime == [ok |-> FALSE, ord |-> 0, secs |-> 0, aware |-> FALSE]
parse(s) ==
    IF /\ IsDateAt(s, 1)
       /\ ~ReplaceRaises(Num4(s, 1), Num2(s, 6), Num2(s, 9))
       /\ \/ Len(s) = 10
          \/ Len(s) = 19 /\ IsTimeAt(s, 11)
          \/ Len(s) = 20 /\ IsTimeAt(s, 11) /\ s[20] = "Z"
    THEN [ok    |-> TRUE,
          ord   |-> toordinal(Date(Num4(s, 1), Num2(s, 6), Num2(s, 9))),
          secs  |-> IF Len(s) = 10 THEN 0
                    ELSE 3600 * Num2(s, 12) + 60 * Num2(s, 15) + Num2(s, 18),
          aware |-> Len(s) = 20]
    ELSE NoDateTime
\* a <= b on datetimes; comparing a naive with an aware one raises TypeError
Comparable(a, b) == a.aware = b.aware
DtLe(a, b) == a.ord < b.ord \/ (a.ord = b.ord /\ a.secs <= b.secs)

\* variant: a record whose date text does not parse is appended
KeepItem_lenient(item, date_field, from_date, to_date) ==
    LET v == item_date_str(item, date_field)
    IN  IF Falsy(v) THEN FALSE ELSE IF v.t # "str" THEN FALSE ELSE ~parse(v.s).ok
\* the body of the loop: TRUE when the item is appended; every exception inside
\* the try block only skips the item
KeepItem(item, date_field, from_date, to_date) ==
    LET v == item_date_str(item, date_field)
    IN  IF Falsy(v) THEN FALSE
        ELSE IF v.t # "str" THEN FALSE
        ELSE LET item_date == parse(v.s)
                 from_date_obj == parse(from_date)
                 to_date_obj == parse(to_date)
             IN  /\ item_date.ok
                 /\ from_date = <<>> \/ from_date_obj.ok
                 /\ to_date = <<>> \/ to_date_obj.ok
                 /\ IF from_date # <<>> /\ to_date # <<>>
                    THEN /\ Comparable(from_date_obj, item_date)
                         /\ DtLe(from_date_obj, item_date)
                         /\ Comparable(item_date, to_date_obj)
                         /\ DtLe(item_date, to_date_obj)
                    ELSE IF from_date # <<>>
                    THEN Comparable(item_date, from_date_obj) /\ DtLe(from_date_obj, item_date)
                    ELSE IF to_date # <<>>
                    THEN Comparable(item_date, to_date_obj) /\ DtLe(item_date, to_date_obj)
                    ELSE FALSE

\* what _filter_by_date yields: the filtered list, or the resolver's exception
Returned(items) == [exc |-> "none", value |-> items]
Failed(e) == [exc |-> e, value |-> <<>>]
\* variant: each kept record is put in front of the ones kept before it
_filter_by_date_prepending(items, date_field, date_filter, now) ==
    LET parsed == _parse_date_filter(date_filter, now)
        kept == SelectSeq(items, LAMBDA item :
                    KeepItem(item, date_field, parsed.from_date, parsed.to_date))
    IN  IF parsed.exc # "none" THEN Failed(parsed.exc)
        ELSE Returned([k \in 1..Len(kept) |-> kept[Len(kept) + 1 - k]])
\* variant: the bounds are parsed before the loop, outside the try block
_filter_by_date_strict(items, date_field, date_filter, now) ==
    LET parsed == _parse_date_filter(date_filter, now)
    IN  IF parsed.exc # "none" THEN Failed(parsed.exc)
        ELSE IF ~parse(parsed.from_date).ok \/ ~parse(parsed.to_date).ok
        THEN Failed("ParserError")
        ELSE Returned(SelectSeq(items, LAMBDA item :
                 KeepItem(item, date_field, parsed.from_date, parsed.to_date)))
\* from_date, to_date = self._parse_date_filter(date_filter), then the loop
_filter_by_date(items, date_field, date_filter, now) ==
    LET parsed == _parse_date_filter(date_filter, now)
    IN  IF parsed.exc # "none" THEN Failed(parsed.exc)
        ELSE IF parsed.from_date = <<>> /\ parsed.to_date = <<>> THEN Returned(items)
        ELSE Returned(SelectSeq(items, LAMBDA item :
                 KeepItem(item, date_field, parsed.from_date, parsed.to_date)))

CreatedDateField == <<"f", "i", "e", "l", "d", "s", ".", "S", "y", "s", "t", "e", "m", ".", "C", "r", "e", "a", "t", "e", "d", "D", "a", "t", "e">>

(***************************************************************************)
(* Inputs                                                                  *)
(***************************************************************************)
\* days after each base day at which the clock is read
NowSpan == 6
\* largest N of the generated 'last N <unit>' expressions
MaxN == 13
\* largest number of identifiers a query returns
MaxIds == 450
\* the records of the identifiers up to this one carry a creation date
DatedIds == 12

Clock(t) == [year |-> t.year, month |-> t.month, day |-> t.day, hour |-> (7 * t.day) % 24]
BaseDays == {Date(2025, 1, 15), Date(2025, 3, 30), Date(2024, 2, 28), Date(2025, 6, 15)}
Nows == {Clock(fromordinal(toordinal(b) + k)) : b \in BaseDays, k \in 0..NowSpan}
PlanNows == {Clock(Date(2025, 1, 15)), Clock(Date(2025, 3, 31))}

RECURSIVE Decimal(_)
Decimal(n) == IF n < 10 THEN <<DigitChars[n + 1]>> ELSE Decimal(n \div 10) \o <<DigitChars[(n % 10) + 1]>>
Units == {<<" ", "d", "a", "y">>, <<" ", "d", "a", "y", "s">>, <<" ", "w", "e", "e", "k">>, <<" ", "w", "e", "e", "k", "s">>, <<" ", "m", "o", "n", "t", "h">>, <<" ", "m", "o", "n", "t", "h", "s">>}
LastNExprs ==
    {lit_last \o Decimal(n) \o u : n \in 0..MaxN, u \in Units}
    \cup {<<"l", "a", "s", "t", " ", "9", "9", "9", "9", "9", "9", "9", " ", "d", "a", "y", "s">>, <<"l", "a", "s", "t", " ", "7", " ", "d", "a", "y", "s", " ", "a", "g", "o">>, <<"L", "a", "s", "t", " ", "2", " ", "M", "o", "n", "t", "h", "s">>}
DateLits == {<<"2", "0", "2", "5", "-", "0", "3", "-", "0", "1">>, <<"2", "0", "2", "5", "-", "0", "3", "-", "3", "1">>, <<"2", "0", "2", "0", "-", "0", "1", "-", "0", "1">>, <<"2", "0", "2", "6", "-", "0", "1", "-", "0", "1">>, <<"2", "0", "2", "5", "-", "1", "3", "-", "4", "5">>}
ExplicitExprs ==
    {d1 \o <<" ", "t", "o", " ">> \o d2 : d1 \in DateLits, d2 \in DateLits}
    \cup DateLits
    \cup {<<"s", "i", "n", "c", "e", " ">> \o d : d \in DateLits}
    \cup {<<"b", "e", "f", "o", "r", "e", " ">> \o d : d \in DateLits}
    \cup {<<"2", "0", "2", "5", "-", "0", "3", "-", "0", "1", " ", " ", "T", "O", "\t", "2", "0", "2", "5", "-", "0", "3", "-", "3", "1">>, <<"s", "i", "n", "c", "e", "\t", "2", "0", "2", "5", "-", "0", "3", "-", "0", "1", " ", "o", "n", "w", "a", "r", "d", "s">>}
KeywordExprs == Keywords \cup {<<" ", " ", "T", "o", "d", "a", "y", " ">>, <<"L", "A", "S", "T", " ", "W", "E", "E", "K">>, <<"T", "h", "i", "s", " ", "M", "o", "n", "t", "h", "\n">>}
\* texts of none of the recognised forms
GarbageExprs ==
    {<<>>, <<" ", " ", " ">>, <<"t", "o", "m", "o", "r", "r", "o", "w">>, <<"n", "e", "x", "t", " ", "w", "e", "e", "k">>, <<"l", "a", "s", "t", " ", "d", "a", "y", "s">>, <<"l", "a", "s", "t", " ", "3", " ", "y", "e", "a", "r", "s">>,
     <<"e", "n", "e", "r", "o", " ", "2", "0", "2", "5">>, <<"2", "0", "2", "5">>, <<"t", "o", "d", "a", "y", "i", "s", "h">>, <<"a", " ", "w", "e", "e", "k", " ", "a", "g", "o">>, <<"u", "n", "t", "i", "l", " ", "2", "0", "2", "5", "-", "0", "3", "-", "0", "1">>}
Exprs == KeywordExprs \cup LastNExprs \cup ExplicitExprs \cup GarbageExprs

RawQuery == "SELECT [System.Id] FROM WorkItems WHERE [System.State] = 'Done'"
QueryStrings == {None, Some(""), Some(RawQuery)}
Projects == {None, Some(""), Some("Demo")}
DefaultProjects == {"", "Contoso"}
WorkItemTypes == {None, Some(""), Some("Bug")}
States == {None, Some(""), Some("Active")}
DateFilters ==
    {NoneChars, Some(<<>>), Some(kw_last_month), Some(<<"l", "a", "s", "t", " ", "1", " ", "m", "o", "n", "t", "h", "s">>),
     Some(<<"2", "0", "2", "5", "-", "0", "3", "-", "3", "1", " ", "t", "o", " ", "2", "0", "2", "5", "-", "0", "3", "-", "0", "1">>), Some(<<"e", "n", "e", "r", "o", " ", "2", "0", "2", "5">>)}
IdCounts == {0, 1, batch_size, MaxIds}

\* the identifiers the service returns for a query, newest first
IdList(n) == [k \in 1..n |-> n + 1 - k]
\* the record the service holds for an identifier: creation dates of every shape
\* on the first records, none on the others
Nested(cs) == JDict("System" :> JDict("CreatedDate" :> JStr(cs)))
Flat(cs) == JDict("System.CreatedDate" :> JStr(cs))
RecordOf(id) ==
    LET fields ==
            CASE id % 6 = 0 -> Nested(<<"2", "0", "2", "4", "-", "1", "2", "-", "1", "4">>)
              [] id % 6 = 1 -> Flat(<<"2", "0", "2", "4", "-", "1", "2", "-", "1", "4", "T", "1", "0", ":", "2", "2", ":", "3", "3", "Z">>)
              [] id % 6 = 2 -> Nested(<<"2", "0", "2", "4", "-", "1", "2", "-", "2", "0", "T", "0", "8", ":", "0", "0", ":", "0", "0", "Z">>)
              [] id % 6 = 3 -> Nested(<<"2", "0", "2", "4", "-", "1", "2", "-", "3", "1", "T", "1", "5", ":", "3", "0", ":", "0", "0">>)
              [] id % 6 = 4 -> Nested(<<>>)
              [] OTHER      -> Nested(<<"n", "/", "a">>)
    IN  IF id <= DatedIds
        THEN JDict("id" :> JInt(id) @@ "fields" :> fields)
        ELSE JDict("id" :> JInt(id))
RecordsOf(ids) == [k \in 1..Len(ids) |-> RecordOf(ids[k])]

\* longest list handed to _filter_by_date on its own
MaxItems == 2
\* records as _filter_by_date may be handed them: the creation date at the
\* nested path, in the shapes a service returns, and the ways it can be absent
Dated(id, cs) == JDict("id" :> JInt(id) @@ "fields" :> Nested(cs))
SampleItems ==
    {Dated(1, <<"2", "0", "2", "4", "-", "1", "2", "-", "1", "4">>),
     Dated(2, <<"2", "0", "2", "4", "-", "1", "2", "-", "0", "1", "T", "0", "0", ":", "0", "0", ":", "0", "0">>),
     Dated(3, <<"2", "0", "2", "4", "-", "1", "2", "-", "3", "1", "T", "1", "5", ":", "3", "0", ":", "0", "0">>),
     Dated(4, <<"2", "0", "2", "4", "-", "1", "2", "-", "2", "0", "T", "0", "8", ":", "0", "0", ":", "0", "0", "Z">>),
     Dated(5, <<"2", "0", "2", "4", "-", "1", "1", "-", "3", "0", "T", "2", "3", ":", "5", "9", ":", "5", "9">>),
     Dated(6, <<>>),
     JDict("id" :> JInt(7)),
     Dated(8, <<"n", "/", "a">>),
     JDict("id" :> JInt(9) @@ "fields" :> Flat(<<"2", "0", "2", "4", "-", "1", "2", "-", "1", "4">>)),
     JDict("id" :> JInt(10) @@ "fields" :> JDict("System" :> JDict("CreatedDate" :> JInt(20241214)))),
     JDict("id" :> JInt(11) @@ "createdDate" :> JStr(<<"2", "0", "2", "4", "-", "1", "2", "-", "1", "4">>))}
ItemLists == UNION {[1..n -> SampleItems] : n \in 0..MaxItems}
DateFields == {CreatedDateField, <<"c", "r", "e", "a", "t", "e", "d", "D", "a", "t", "e">>}
FilterExprs ==
    {kw_last_month, <<"2", "0", "2", "4", "-", "1", "2", "-", "0", "1", " ", "t", "o", " ", "2", "0", "2", "4", "-", "1", "2", "-", "3", "1">>, <<"2", "0", "2", "4", "-", "1", "2", "-", "3", "1">>, <<"s", "i", "n", "c", "e", " ", "2", "0", "2", "4", "-", "1", "2", "-", "0", "1">>, <<"l", "a", "s", "t", " ", "1", " ", "m", "o", "n", "t", "h", "s">>,
     <<"2", "0", "2", "5", "-", "1", "3", "-", "4", "5">>, <<"s", "i", "n", "c", "e", " ", "2", "0", "2", "5", "-", "1", "3", "-", "4", "5">>, <<"2", "0", "2", "4", "-", "1", "2", "-", "0", "1", " ", "t", "o", " ", "2", "0", "2", "5", "-", "1", "3", "-", "4", "5">>}

\* number of calls of the resolver made one after the other on one instance
MaxCalls == 2
AgainExprs ==
    {kw_today, kw_last_week, <<"l", "a", "s", "t", " ", "2", " ", "m", "o", "n", "t", "h", "s">>, <<"l", "a", "s", "t", " ", "1", " ", "m", "o", "n", "t", "h", "s">>, <<"2", "0", "2", "5", "-", "0", "3", "-", "0", "1", " ", "t", "o", " ", "2", "0", "2", "5", "-", "0", "3", "-", "3", "1">>, <<"e", "n", "e", "r", "o", " ", "2", "0", "2", "5">>}
AgainNows == {Clock(Date(2025, 6, 15)), Clock(Date(2025, 1, 15)), Clock(Date(2025, 3, 31))}

\* the argument lists of the requests that run side by side
ConcArgs ==
    {[query_string |-> None, project |-> Some("Demo"), work_item_type |-> Some("Bug"),
      date_filter |-> Some(kw_last_month), state |-> None],
     [query_string |-> Some(RawQuery), project |-> None, work_item_type |-> None,
      date_filter |-> Some(kw_last_month), state |-> Some("Active")],
     [query_string |-> None, project |-> None, work_item_type |-> None,
      date_filter |-> NoneChars, state |-> None]}
ConcIdCounts == {0, batch_size + 1}
ConcNows == {Clock(Date(2025, 1, 15))}

\* the environments initialize() may find
Envs ==
    {[AZDO_PAT |-> p, AZDO_ORG |-> o, AZDO_PROJECT |-> j] :
        p \in {None, Some(""), Some("pat")},
        o \in {None, Some("https://dev.azure.com/org")},
        j \in {None, Some("Contoso")}}
\* the argument lists handed to the wrapper
ClientArgs ==
    ConcArgs \cup
    {[query_string |-> None, project |-> Some("Demo"), work_item_type |-> None,
      date_filter |-> Some(lit_last \o Decimal(1) \o <<" ", "m", "o", "n", "t", "h", "s">>),
      state |-> Some("Active")],
     [query_string |-> Some(RawQuery), project |-> Some("Demo"), work_item_type |-> None,
      date_filter |-> NoneChars, state |-> None]}
ClientIdCounts == {0, 1, batch_size + 1}

(***************************************************************************)
(* State                                                                   *)
(***************************************************************************)
VARIABLES
    tool,   \* the AzureDevOpsTool instance: its configuration
    req,    \* per request: the arguments and locals of list_work_items
    probe,  \* a direct call of _parse_date_filter or _filter_by_date: arguments, outcome
    client  \* the DevOpsMCPClient: its attributes, and what its list_work_items returned

vars == <<tool, req, probe, client>>

Reqs == {1, 2}

IdleReq ==
    [pc |-> "idle",
     query_string |-> None, project |-> None, work_item_type |-> None,
     date_filter |-> NoneChars, state |-> None,
     project_to_use |-> "",
     date_filter_wiql |-> <<>>,
     client_side_date_filter |-> NoneChars,
     query |-> <<>>,
     work_item_ids |-> <<>>,
     i |-> 0,
     details |-> <<>>,
     result |-> <<>>,
     exc |-> "none",
     now |-> Clock(Date(1, 1, 1)),
     calls |-> <<>>,
     steps |-> <<>>]
IdleProbe ==
    [pc |-> "idle", date_filter |-> <<>>, now |-> Clock(Date(1, 1, 1)), out |-> Ok(<<>>, <<>>),
     items |-> <<>>, date_field |-> <<>>, filtered |-> Returned(<<>>),
     earlier |-> <<>>]

\* the Authorization header: Basic, then base64 of ":" and the token
BasicAuth(pat) == [scheme |-> "Basic", base64_of |-> ":" \o pat]
NewTool(project) ==
    [pat |-> "pat", organization |-> "https://dev.azure.com/org", project |-> project,
     headers |-> [Authorization |-> BasicAuth("pat"), ContentType |-> "application/json"]]

\* no AzureDevOpsTool was constructed
NoInstance == [pat |-> "", organization |-> "", project |-> "", headers |-> <<>>]

\* DevOpsMCPClient.__init__; azdo_tool refers to the instance held in tool
NewClient ==
    [pc |-> "idle", is_initialized |-> FALSE, azdo_tool |-> None, result |-> <<>>,
     printed |-> ""]
\* the request that runs inside the wrapper's try
ClientReq == 1

\* variant: the exception of the tool's call leaves the wrapper
AfterCall_propagating(c, r, rq) ==
    IF ~c.azdo_tool.some \/ r # ClientReq THEN c
    ELSE IF rq.pc = "returned" THEN [c EXCEPT !.pc = "returned", !.result = rq.result]
    ELSE IF rq.pc = "raised" THEN [c EXCEPT !.pc = "raised"]
    ELSE [c EXCEPT !.pc = "calling"]
\* the wrapper around the tool's call: while the call waits the wrapper waits,
\* its value is returned, and its exception is printed and [] returned
AfterCall(c, r, rq) ==
    IF ~c.azdo_tool.some \/ r # ClientReq THEN c
    ELSE IF rq.pc = "returned" THEN [c EXCEPT !.pc = "returned", !.result = rq.result]
    ELSE IF rq.pc = "raised"
         THEN [c EXCEPT !.pc = "returned", !.result = <<>>,
                        !.printed = "Error al listar work items"]
    ELSE [c EXCEPT !.pc = "calling"]

Init ==
    /\ tool \in {NewTool(p) : p \in DefaultProjects}
    /\ req = [r \in Reqs |-> IdleReq]
    /\ probe = IdleProbe
    /\ client = NewClient

(***************************************************************************)
(* list_work_items, one action per remote round trip                       *)
(***************************************************************************)
\* the log of the remote calls of a request: what was sent, and how it ended
WiqlCall(q) == [kind |-> "wiql", query |-> q, ids |-> <<>>, status |-> "pending"]
DetailsCall(batch) == [kind |-> "details", query |-> <<>>, ids |-> batch, status |-> "pending"]
Answer(calls, status) == [calls EXCEPT ![Len(calls)] = [@ EXCEPT !.status = status]]

\* variant: the slice is one identifier too long
Batch_overlong(work_item_ids, i) ==
    SubSeq(work_item_ids, i + 1, IF i + batch_size + 1 < Len(work_item_ids)
                                 THEN i + batch_size + 1 ELSE Len(work_item_ids))
\* work_item_ids[i:i + batch_size]
Batch(work_item_ids, i) ==
    SubSeq(work_item_ids, i + 1, IF i + batch_size < Len(work_item_ids)
                                 THEN i + batch_size ELSE Len(work_item_ids))

\* variant: the records fetched so far are returned when a call fails
Raise_salvaging(rq, e) == [rq EXCEPT !.pc = "returned", !.exc = e, !.result = rq.details]
\* an exception leaves list_work_items: nothing is returned
Raise(rq, e) == [rq EXCEPT !.pc = "raised", !.exc = e]

\* variant: the project in use is kept on the instance and read by the other requests
ProjectToUse_shared(project, default) ==
    IF Truthy(project) THEN project.v
    ELSE IF \E s \in Reqs : req[s].project_to_use # ""
         THEN req[CHOOSE s \in Reqs : req[s].project_to_use # ""].project_to_use
         ELSE default
\* project or self.project
ProjectToUse(project, default) == IF Truthy(project) THEN project.v ELSE default
\* variant: the project is not checked
MissingProject_unchecked(project_to_use) == FALSE
\* if not project_to_use
MissingProject(project_to_use) == project_to_use = ""
\* variant: an empty identifier list is not checked
NoIds_unchecked(work_item_ids) == FALSE
\* if not work_item_ids
NoIds(work_item_ids) == work_item_ids = <<>>

\* from the entry of list_work_items to the POST of the query
Call(r, query_string, project, work_item_type, date_filter, state, now) ==
    /\ req[r].pc = "idle"
    /\ LET project_to_use == ProjectToUse(project, tool.project)
           args == [req[r] EXCEPT !.query_string = query_string, !.project = project,
                                  !.work_item_type = work_item_type,
                                  !.date_filter = date_filter, !.state = state,
                                  !.project_to_use = project_to_use]
           resolves == TruthyChars(date_filter) /\ ~Truthy(query_string)
           parsed == IF resolves THEN _parse_date_filter(date_filter.v, now) ELSE Ok(<<>>, <<>>)
           date_filter_wiql == IF resolves THEN DateFilterWiql(parsed) ELSE <<>>
           q == QueryText(query_string, project_to_use, work_item_type, state, date_filter_wiql)
       IN  IF MissingProject(project_to_use) THEN
               req' = [req EXCEPT ![r] = Raise(args, "ValueError")]
           ELSE IF parsed.exc # "none" THEN
               req' = [req EXCEPT ![r] =
                         [Raise(args, parsed.exc) EXCEPT !.now = now, !.steps = <<"resolve">>]]
           ELSE
               req' = [req EXCEPT ![r] =
                         [args EXCEPT
                            !.pc = "wiql",
                            !.now = IF resolves THEN now ELSE @,
                            !.date_filter_wiql = date_filter_wiql,
                            !.client_side_date_filter =
                                ClientSideDateFilter(query_string, date_filter, parsed),
                            !.query = q,
                            !.calls = <<WiqlCall(q)>>,
                            !.steps = (IF resolves THEN <<"resolve">> ELSE <<>>)
                                      \o (IF Truthy(query_string) THEN <<>> ELSE <<"build">>)
                                      \o <<"submit">>]]
    /\ UNCHANGED <<tool, probe>>
    /\ client' = AfterCall(client, r, req'[r])

\* variant: a failed submission is posted once more
WiqlFail_reposting(r) ==
    /\ req[r].pc = "wiql"
    /\ req' = [req EXCEPT ![r] =
                 IF Len(@.calls) < 2
                 THEN [@ EXCEPT !.calls = Append(Answer(@, "failed"), WiqlCall(req[r].query))]
                 ELSE [Raise(@, "HTTPError") EXCEPT !.calls = Answer(@, "failed")]]
    /\ UNCHANGED <<tool, probe>>
    /\ client' = AfterCall(client, r, req'[r])
\* the POST fails: raise_for_status raises, or the connection does
WiqlFail(r) ==
    /\ req[r].pc = "wiql"
    /\ req' = [req EXCEPT ![r] =
                 [Raise(@, "HTTPError") EXCEPT !.calls = Answer(@, "failed")]]
    /\ UNCHANGED <<tool, probe>>
    /\ client' = AfterCall(client, r, req'[r])

\* the POST answers with n identifiers; an empty list ends the request,
\* otherwise the first batch is requested
WiqlOk(r, n) ==
    /\ req[r].pc = "wiql"
    /\ LET work_item_ids == IdList(n)
           answered == Answer(req[r].calls, "ok")
       IN  IF NoIds(work_item_ids) THEN
               req' = [req EXCEPT ![r] =
                         [@ EXCEPT !.pc = "returned", !.result = <<>>, !.calls = answered]]
           ELSE
               req' = [req EXCEPT ![r] =
                         [@ EXCEPT !.pc = "details",
                                   !.work_item_ids = work_item_ids,
                                   !.i = 0,
                                   !.details = <<>>,
                                   !.calls = Append(answered, DetailsCall(Batch(work_item_ids, 0))),
                                   !.steps = Append(@, "batch")]]
    /\ UNCHANGED <<tool, probe>>
    /\ client' = AfterCall(client, r, req'[r])

\* a detail GET fails: the exception leaves list_work_items
DetailsFail(r) ==
    /\ req[r].pc = "details"
    /\ req' = [req EXCEPT ![r] =
                 [Raise(@, "HTTPError") EXCEPT !.calls = Answer(@, "failed")]]
    /\ UNCHANGED <<tool, probe>>
    /\ client' = AfterCall(client, r, req'[r])

\* the statements after the loop: the pending client-side filter, or details
Finish(rq, details, calls, now) ==
    IF TruthyChars(rq.client_side_date_filter) THEN
        LET out == _filter_by_date(details, CreatedDateField, rq.client_side_date_filter.v, now)
        IN  IF out.exc # "none"
            THEN [Raise(rq, out.exc) EXCEPT !.details = details, !.calls = calls, !.now = now,
                                            !.steps = Append(@, "resolve")]
            ELSE [rq EXCEPT !.pc = "returned", !.details = details, !.calls = calls,
                            !.now = now, !.result = out.value,
                            !.steps = @ \o <<"resolve", "filter">>]
    ELSE [rq EXCEPT !.pc = "returned", !.details = details, !.calls = calls,
                    !.result = details]

\* the answered GET is the last one and a client-side filter is pending
FiltersNext(rq) ==
    /\ rq.i + batch_size >= Len(rq.work_item_ids)
    /\ TruthyChars(rq.client_side_date_filter)

\* what a detail GET that answers with the records of its batch leads to: they
\* are appended, and the next batch is requested or the request finishes
AfterDetails(rq, now) ==
    LET value == RecordsOf(rq.calls[Len(rq.calls)].ids)
        answered == Answer(rq.calls, "ok")
        details == rq.details \o value
        i == rq.i + batch_size
    IN  IF i < Len(rq.work_item_ids) THEN
            [rq EXCEPT !.i = i,
                       !.details = details,
                       !.calls = Append(answered, DetailsCall(Batch(rq.work_item_ids, i))),
                       !.steps = Append(@, "batch")]
        ELSE Finish(rq, details, answered, now)

\* a detail GET answers and no client-side filtering follows (the clock is not read)
DetailsOk(r) ==
    /\ req[r].pc = "details"
    /\ ~FiltersNext(req[r])
    /\ req' = [req EXCEPT ![r] = AfterDetails(req[r], req[r].now)]
    /\ UNCHANGED <<tool, probe>>
    /\ client' = AfterCall(client, r, req'[r])

\* the last detail GET answers and _filter_by_date runs, reading the clock
DetailsOkFilter(r, now) ==
    /\ req[r].pc = "details"
    /\ FiltersNext(req[r])
    /\ req' = [req EXCEPT ![r] = AfterDetails(req[r], now)]
    /\ UNCHANGED <<tool, probe>>
    /\ client' = AfterCall(client, r, req'[r])

Next ==
    \/ \E query_string \in QueryStrings, project \in Projects,
          work_item_type \in WorkItemTypes, date_filter \in DateFilters,
          state \in States, now \in PlanNows :
          Call(1, query_string, project, work_item_type, date_filter, state, now)
    \/ WiqlFail(1)
    \/ \E n \in IdCounts : WiqlOk(1, n)
    \/ DetailsFail(1)
    \/ DetailsOk(1)
    \/ \E now \in PlanNows : DetailsOkFilter(1, now)

Spec == Init /\ [][Next]_vars

\* a remote call that is outstanding is answered: requests.post and requests.get
\* return a response or raise
RemoteAnswer ==
    \/ WiqlFail(1)
    \/ \E n \in IdCounts : WiqlOk(1, n)
    \/ DetailsFail(1)
    \/ DetailsOk(1)
    \/ \E now \in PlanNows : DetailsOkFilter(1, now)
\* the same requests, every remote call being answered eventually
SpecLive == Init /\ [][Next]_vars /\ WF_vars(RemoteAnswer)

(***************************************************************************)
(* Several list_work_items requests on one instance, in any interleaving   *)
(***************************************************************************)
NextConc ==
    \E r \in Reqs :
        \/ \E a \in ConcArgs, now \in ConcNows :
              Call(r, a.query_string, a.project, a.work_item_type, a.date_filter, a.state, now)
        \/ WiqlFail(r)
        \/ \E n \in ConcIdCounts : WiqlOk(r, n)
        \/ DetailsFail(r)
        \/ DetailsOk(r)
        \/ \E now \in ConcNows : DetailsOkFilter(r, now)

SpecConc == Init /\ [][NextConc]_vars

(***************************************************************************)
(* DevOpsMCPClient: initialize, and list_work_items through the wrapper    *)
(***************************************************************************)
\* AzureDevOpsTool(): the instance built from the environment
ToolFrom(env) ==
    [pat |-> env.AZDO_PAT.v, organization |-> env.AZDO_ORG.v,
     project |-> IF env.AZDO_PROJECT.some THEN env.AZDO_PROJECT.v ELSE "",
     headers |-> [Authorization |-> BasicAuth(env.AZDO_PAT.v),
                  ContentType |-> "application/json"]]
\* if not all([self.pat, self.organization]): raise ValueError
MissingCredentials(env) == ~(Truthy(env.AZDO_PAT) /\ Truthy(env.AZDO_ORG))

InitClient ==
    /\ tool = NoInstance
    /\ req = [r \in Reqs |-> IdleReq]
    /\ probe = IdleProbe
    /\ client = NewClient

\* initialize(), before the call of list_work_items: the constructor's
\* exception is caught and printed, and the client stays as it was
Initialize(env) ==
    /\ client.pc = "idle"
    /\ IF MissingCredentials(env)
       THEN /\ client' = [client EXCEPT !.printed = "Error al inicializar cliente MCP"]
            /\ UNCHANGED tool
       ELSE /\ tool' = ToolFrom(env)
            /\ client' = [client EXCEPT !.azdo_tool = Some("tool"), !.is_initialized = TRUE,
                                        !.printed = "Cliente MCP inicializado"]
    /\ UNCHANGED <<req, probe>>

\* DevOpsMCPClient.list_work_items: without a tool the empty list is returned
\* at once, otherwise the tool's list_work_items runs inside the try
ClientCall(query, project, work_item_type, date_filter, state, now) ==
    /\ client.pc = "idle"
    /\ IF ~client.azdo_tool.some
       THEN /\ client' = [client EXCEPT !.pc = "returned", !.result = <<>>,
                                        !.printed = "Cliente Azure DevOps no inicializado"]
            /\ UNCHANGED <<tool, req, probe>>
       ELSE Call(ClientReq, query, project, work_item_type, date_filter, state, now)

NextClient ==
    \/ \E env \in Envs : Initialize(env)
    \/ \E a \in ClientArgs, now \in PlanNows :
          ClientCall(a.query_string, a.project, a.work_item_type, a.date_filter, a.state, now)
    \/ WiqlFail(ClientReq)
    \/ \E n \in ClientIdCounts : WiqlOk(ClientReq, n)
    \/ DetailsFail(ClientReq)
    \/ DetailsOk(ClientReq)
    \/ \E now \in PlanNows : DetailsOkFilter(ClientReq, now)

SpecClient == InitClient /\ [][NextClient]_vars

(***************************************************************************)
(* _parse_date_filter called on its own                                    *)
(***************************************************************************)
InitResolve ==
    /\ tool = NewTool("")
    /\ req = [r \in Reqs |-> IdleReq]
    /\ probe \in {[IdleProbe EXCEPT !.pc = "call", !.date_filter = e, !.now = n] :
                    e \in Exprs, n \in Nows}
    /\ client = NewClient

Resolve ==
    /\ probe.pc = "call"
    /\ LET out == _parse_date_filter(probe.date_filter, probe.now)
       IN  probe' = [probe EXCEPT !.pc = IF out.exc = "none" THEN "returned" ELSE "raised",
                                  !.out = out]
    /\ UNCHANGED <<tool, req, client>>

NextResolve == Resolve

SpecResolve == InitResolve /\ [][NextResolve]_vars

(***************************************************************************)
(* _parse_date_filter called repeatedly on one instance                    *)
(***************************************************************************)
\* the call just made, as an entry of the list of earlier calls
ThisCall == [date_filter |-> probe.date_filter, now |-> probe.now, out |-> probe.out]
CallsMade == probe.earlier \o (IF probe.pc = "idle" THEN <<>> ELSE <<ThisCall>>)

InitAgain ==
    /\ tool \in {NewTool(p) : p \in DefaultProjects}
    /\ req = [r \in Reqs |-> IdleReq]
    /\ probe = IdleProbe
    /\ client = NewClient

\* variant: the interval of the previous call is kept and returned again
ResolveAgain_remembering(date_filter, now) ==
    /\ Len(CallsMade) < MaxCalls
    /\ LET out == IF probe.pc = "returned" THEN probe.out
                  ELSE _parse_date_filter(date_filter, now)
       IN  probe' = [probe EXCEPT !.pc = IF out.exc = "none" THEN "returned" ELSE "raised",
                                  !.date_filter = date_filter, !.now = now, !.out = out,
                                  !.earlier = CallsMade]
    /\ UNCHANGED <<tool, req, client>>
\* one more call of self._parse_date_filter(date_filter), the clock reading now
ResolveAgain(date_filter, now) ==
    /\ Len(CallsMade) < MaxCalls
    /\ LET out == _parse_date_filter(date_filter, now)
       IN  probe' = [probe EXCEPT !.pc = IF out.exc = "none" THEN "returned" ELSE "raised",
                                  !.date_filter = date_filter, !.now = now, !.out = out,
                                  !.earlier = CallsMade]
    /\ UNCHANGED <<tool, req, client>>

NextAgain == \E date_filter \in AgainExprs, now \in AgainNows : ResolveAgain(date_filter, now)

SpecAgain == InitAgain /\ [][NextAgain]_vars

(***************************************************************************)
(* _filter_by_date called on its own                                       *)
(***************************************************************************)
InitFilter ==
    /\ tool = NewTool("")
    /\ req = [r \in Reqs |-> IdleReq]
    /\ probe \in {[IdleProbe EXCEPT !.pc = "call", !.items = its, !.date_field = f,
                                    !.date_filter = e, !.now = n] :
                    its \in ItemLists, f \in DateFields, e \in FilterExprs, n \in PlanNows}
    /\ client = NewClient

Filter ==
    /\ probe.pc = "call"
    /\ LET out == _filter_by_date(probe.items, probe.date_field, probe.date_filter, probe.now)
       IN  probe' = [probe EXCEPT !.pc = IF out.exc = "none" THEN "returned" ELSE "raised",
                                  !.filtered = out]
    /\ UNCHANGED <<tool, req, client>>

NextFilter == Filter

SpecFilter == InitFilter /\ [][NextFilter]_vars

(***************************************************************************)
(* Properties of _parse_date_filter (under SpecResolve)                    *)
(***************************************************************************)
\* a YYYY-MM-DD text as a number that orders as the days do
DayKey(s) == 10000 * Num4(s, 1) + 100 * Num2(s, 6) + Num2(s, 9)
ProbeToday == Date(probe.now.year, probe.now.month, probe.now.day)

\* C2 (as claimed): the resolver never fails - no call of _parse_date_filter
\* raises, whatever the expression and whatever the day.
C2_ResolverNeverRaises == probe.pc # "raised"

\* C9 (as claimed): every returned interval has from <= to, for every expression.
C9_FromLeTo ==
    probe.pc = "returned" => DayKey(probe.out.from_date) <= DayKey(probe.out.to_date)

\* expressions whose bounds the resolver computes from the clock or copies twice
ComputedExprs == KeywordExprs \cup LastNExprs \cup DateLits \cup GarbageExprs
\* C9 (amended): every interval returned for a keyword, a 'last N unit'
\* expression, a single date or an unrecognised text has from <= to.
C9_ComputedFromLeTo ==
    (probe.pc = "returned" /\ probe.date_filter \in ComputedExprs)
        => DayKey(probe.out.from_date) <= DayKey(probe.out.to_date)
C9_Witness ==
    /\ probe.pc = "returned"
    /\ probe.date_filter = <<"l", "a", "s", "t", " ", "2", " ", "m", "o", "n", "t", "h", "s">>
    /\ probe.now = Clock(Date(2025, 1, 15))
    /\ probe.out.from_date = <<"2", "0", "2", "4", "-", "1", "1", "-", "1", "5">>
    /\ DayKey(probe.out.from_date) < DayKey(probe.out.to_date)

DayOf(s) == Date(Num4(s, 1), Num2(s, 6), Num2(s, 9))
OrdOf(s) == toordinal(DayOf(s))
\* the expressions 'last N <unit>' for the N generated and the given units
LastN(n, u) == lit_last \o Decimal(n) \o u
DayUnits == {<<" ", "d", "a", "y">>, <<" ", "d", "a", "y", "s">>}
WeekUnits == {<<" ", "w", "e", "e", "k">>, <<" ", "w", "e", "e", "k", "s">>}
MonthUnits == {<<" ", "m", "o", "n", "t", "h">>, <<" ", "m", "o", "n", "t", "h", "s">>}
RangeOf(d1, d2) == d1 \o <<" ", "t", "o", " ">> \o d2
SinceOf(d) == <<"s", "i", "n", "c", "e", " ">> \o d
BeforeOf(d) == <<"b", "e", "f", "o", "r", "e", " ">> \o d

\* the (year, month) lying n months before that of a day
MonthsBack(t, n) ==
    LET index == 12 * t.year + (t.month - 1) - n
    IN  [year |-> index \div 12, month |-> (index % 12) + 1]

\* C13 (as claimed): for every now and every N, 'last N month(s)' returns
\* to = now and from = the day with now's day-of-month in the (year, month)
\* lying N months before now's.
C13_LastMonthsAlways ==
    \A n \in 0..MaxN, u \in MonthUnits :
        (probe.pc # "call" /\ probe.date_filter = LastN(n, u)) =>
            /\ probe.pc = "returned"
            /\ probe.out.to_date = strftime(ProbeToday)
            /\ LET ym == MonthsBack(ProbeToday, n)
               IN  probe.out.from_date = strftime(Date(ym.year, ym.month, ProbeToday.day))

\* C13 (what holds): the same, whenever the month lying N months back has
\* now's day-of-month; otherwise the call raises ValueError.
C13_LastMonthsWhenDayExists ==
    \A n \in 0..MaxN, u \in MonthUnits :
        (probe.pc # "call" /\ probe.date_filter = LastN(n, u)) =>
            LET ym == MonthsBack(ProbeToday, n)
            IN  IF ProbeToday.day <= days_in_month(ym.year, ym.month)
                THEN /\ probe.pc = "returned"
                     /\ probe.out.to_date = strftime(ProbeToday)
                     /\ probe.out.from_date = strftime(Date(ym.year, ym.month, ProbeToday.day))
                ELSE probe.pc = "raised" /\ probe.out.exc = "ValueError"
C13_Witness ==
    /\ probe.pc = "returned"
    /\ probe.date_filter = <<"l", "a", "s", "t", " ", "1", "3", " ", "m", "o", "n", "t", "h", "s">>
    /\ probe.now = Clock(Date(2025, 1, 15))
    /\ probe.out = Ok(<<"2", "0", "2", "3", "-", "1", "2", "-", "1", "5">>, <<"2", "0", "2", "5", "-", "0", "1", "-", "1", "5">>)

\* a known Monday, and the ordinals that fall on a Monday
AMonday == toordinal(Date(2025, 1, 13))
IsMonday(ord) == (ord - AMonday) % 7 = 0
\* C14: 'this week' returns from = the most recent Monday on or before now and
\* to = now; 'last week' returns a Monday-to-Sunday interval of 7 days whose
\* last day is the day before that Monday.
C14_MondayWeeks ==
    LET df == strip(lower(probe.date_filter))
        now_ord == toordinal(ProbeToday)
    IN  /\ (probe.pc # "call" /\ df = kw_this_week) =>
              /\ probe.pc = "returned"
              /\ probe.out.to_date = strftime(ProbeToday)
              /\ IsMonday(OrdOf(probe.out.from_date))
              /\ now_ord - OrdOf(probe.out.from_date) \in 0..6
              /\ probe.out.from_date = strftime(fromordinal(OrdOf(probe.out.from_date)))
        /\ (probe.pc # "call" /\ df = kw_last_week) =>
              /\ probe.pc = "returned"
              /\ IsMonday(OrdOf(probe.out.from_date))
              /\ OrdOf(probe.out.to_date) = OrdOf(probe.out.from_date) + 6
              /\ IsMonday(OrdOf(probe.out.to_date) + 1)
              /\ now_ord - (OrdOf(probe.out.to_date) + 1) \in 0..6
              /\ probe.out.from_date = strftime(fromordinal(OrdOf(probe.out.from_date)))
              /\ probe.out.to_date = strftime(fromordinal(OrdOf(probe.out.to_date)))
C14_Witness ==
    /\ probe.pc = "returned"
    /\ probe.date_filter = kw_last_week
    /\ probe.now = Clock(Date(2025, 3, 30))
    /\ probe.out = Ok(<<"2", "0", "2", "5", "-", "0", "3", "-", "1", "7">>, <<"2", "0", "2", "5", "-", "0", "3", "-", "2", "3">>)

\* the N of the generated 'last N day(s)' and 'last N week(s)' expressions
CountedN == (0..MaxN) \cup {9999999}
\* C16 (as claimed): for every now and every N, 'last N day(s)' returns
\* from = now - N days and 'last N week(s)' from = now - 7N days, with to = now.
C16_LastDaysWeeksAlways ==
    \A n \in CountedN, u \in DayUnits \cup WeekUnits :
        (probe.pc # "call" /\ probe.date_filter = LastN(n, u)) =>
            /\ probe.pc = "returned"
            /\ probe.out.to_date = strftime(ProbeToday)
            /\ probe.out.from_date =
                  strftime(fromordinal(toordinal(ProbeToday)
                                       - (IF u \in DayUnits THEN n ELSE 7 * n)))

\* C16 (what holds): the same, whenever now - N days (7N days) is a date, that
\* is, not before 0001-01-01; otherwise the call raises OverflowError.
C16_LastDaysWeeksInRange ==
    \A n \in CountedN, u \in DayUnits \cup WeekUnits :
        (probe.pc # "call" /\ probe.date_filter = LastN(n, u)) =>
            LET back == IF u \in DayUnits THEN n ELSE 7 * n
            IN  IF toordinal(ProbeToday) - back >= 1
                THEN /\ probe.pc = "returned"
                     /\ probe.out.to_date = strftime(ProbeToday)
                     /\ probe.out.from_date = strftime(fromordinal(toordinal(ProbeToday) - back))
                ELSE probe.pc = "raised" /\ probe.out.exc = "OverflowError"
C16_Witness ==
    /\ probe.pc = "returned"
    /\ probe.date_filter = <<"l", "a", "s", "t", " ", "7", " ", "d", "a", "y", "s">>
    /\ probe.now = Clock(Date(2025, 6, 15))
    /\ probe.out = Ok(<<"2", "0", "2", "5", "-", "0", "6", "-", "0", "8">>, <<"2", "0", "2", "5", "-", "0", "6", "-", "1", "5">>)

\* C17: 'D1 to D2' returns from = D1 and to = D2 exactly as written, whatever
\* the day of the call, also when D1 is after D2 or is no calendar day.
C17_RangeAsWritten ==
    /\ \A d1, d2 \in DateLits :
          (probe.pc # "call" /\ probe.date_filter = RangeOf(d1, d2)) =>
              (probe.pc = "returned" /\ probe.out = Ok(d1, d2))
    /\ (probe.pc # "call" /\ probe.date_filter = <<"2", "0", "2", "5", "-", "0", "3", "-", "0", "1", " ", " ", "T", "O", "\t", "2", "0", "2", "5", "-", "0", "3", "-", "3", "1">>) =>
          probe.out = Ok(<<"2", "0", "2", "5", "-", "0", "3", "-", "0", "1">>, <<"2", "0", "2", "5", "-", "0", "3", "-", "3", "1">>)
C17_Witness ==
    /\ probe.pc = "returned"
    /\ probe.date_filter = <<"2", "0", "2", "5", "-", "0", "3", "-", "3", "1", " ", "t", "o", " ", "2", "0", "2", "5", "-", "0", "3", "-", "0", "1">>
    /\ probe.now = Clock(Date(2024, 2, 29))
    /\ probe.out = Ok(<<"2", "0", "2", "5", "-", "0", "3", "-", "3", "1">>, <<"2", "0", "2", "5", "-", "0", "3", "-", "0", "1">>)

\* C18: 'before D' returns to = D and from = now - 365 days, wherever D lies
\* relative to now.
C18_Before ==
    \A d \in DateLits :
        (probe.pc # "call" /\ probe.date_filter = BeforeOf(d)) =>
            /\ probe.pc = "returned"
            /\ probe.out.to_date = d
            /\ probe.out.from_date = strftime(fromordinal(toordinal(ProbeToday) - 365))
C18_Witness ==
    /\ probe.pc = "returned"
    /\ probe.date_filter = <<"b", "e", "f", "o", "r", "e", " ", "2", "0", "2", "0", "-", "0", "1", "-", "0", "1">>
    /\ probe.now = Clock(Date(2025, 1, 15))
    /\ probe.out = Ok(<<"2", "0", "2", "4", "-", "0", "1", "-", "1", "6">>, <<"2", "0", "2", "0", "-", "0", "1", "-", "0", "1">>)

\* C19: 'since D' returns from = D and to = now; it is not resolved as the
\* single date D (to is now, not D, unless D is the day of the call).
C19_Since ==
    \A d \in DateLits :
        (probe.pc # "call" /\ probe.date_filter = SinceOf(d)) =>
            /\ probe.pc = "returned"
            /\ probe.out = Ok(d, strftime(ProbeToday))
            /\ d # strftime(ProbeToday) => probe.out.to_date # d
C19_Witness ==
    /\ probe.pc = "returned"
    /\ probe.date_filter = <<"s", "i", "n", "c", "e", " ", "2", "0", "2", "5", "-", "0", "3", "-", "0", "1">>
    /\ probe.now = Clock(Date(2025, 6, 15))
    /\ probe.out = Ok(<<"2", "0", "2", "5", "-", "0", "3", "-", "0", "1">>, <<"2", "0", "2", "5", "-", "0", "6", "-", "1", "5">>)

\* case variants and whitespace paddings of a text
UpperChar(c) ==
    IF \E k \in 1..26 : LowerChars[k] = c
    THEN UpperChars[CHOOSE k \in 1..26 : LowerChars[k] = c]
    ELSE c
upper(s) == [k \in 1..Len(s) |-> UpperChar(s[k])]
capitalized(s) == [k \in 1..Len(s) |-> IF k = 1 THEN UpperChar(s[k]) ELSE s[k]]
Variants(s) ==
    {upper(s), capitalized(s), <<" ">> \o s, s \o <<"\n">>,
     <<"\t", " ">> \o upper(s) \o <<" ", "\r">>}
\* C20: an expression, its case variants and its paddings with leading or
\* trailing whitespace all resolve to the same outcome on the same day.
C20_CaseAndWhitespace ==
    probe.pc # "call" =>
        \A v \in Variants(probe.date_filter) :
            _parse_date_filter(v, probe.now) = probe.out
C20_Witness ==
    /\ probe.pc = "returned"
    /\ probe.date_filter = <<" ", " ", "T", "o", "d", "a", "y", " ">>
    /\ probe.now = Clock(Date(2025, 6, 15))
    /\ probe.out = Ok(<<"2", "0", "2", "5", "-", "0", "6", "-", "1", "5">>, <<"2", "0", "2", "5", "-", "0", "6", "-", "1", "5">>)
    /\ _parse_date_filter(kw_today, probe.now) = probe.out
    /\ _parse_date_filter(<<"\t", "T", "O", "D", "A", "Y", "\n">>, probe.now) = probe.out

\* the first and the last day of the calendar month preceding that of a day
PrecedingMonth(t) ==
    LET ym == MonthsBack(t, 1)
    IN  [first |-> Date(ym.year, ym.month, 1),
         last  |-> Date(ym.year, ym.month, days_in_month(ym.year, ym.month))]
\* the resolver's part of C15, for every day of the resolver's own runs: 'last
\* month' returns the first and the last day of the preceding calendar month,
\* and the day after the last one is the first day of now's month.
C15_LastMonthBounds ==
    (probe.pc # "call" /\ strip(lower(probe.date_filter)) = kw_last_month) =>
        LET m == PrecedingMonth(ProbeToday)
        IN  /\ probe.pc = "returned"
            /\ probe.out = Ok(strftime(m.first), strftime(m.last))
            /\ toordinal(m.last) + 1 = toordinal(Date(ProbeToday.year, ProbeToday.month, 1))
C15_BoundsWitness ==
    /\ probe.pc = "returned"
    /\ probe.date_filter = kw_last_month
    /\ probe.now = Clock(Date(2024, 2, 29))
    /\ probe.out = Ok(<<"2", "0", "2", "4", "-", "0", "1", "-", "0", "1">>, <<"2", "0", "2", "4", "-", "0", "1", "-", "3", "1">>)

\* C26: the forms are tried in the order keyword, 'last N day/week/month',
\* range, single date, 'since', 'before', fallback, and the first that matches
\* gives the result; 'D1 to D2', whose text also begins with a single date,
\* resolves as the range (D1, D2) and not as the single date (D1, D1).
C26_FirstMatchWins ==
    probe.pc # "call" =>
        LET df == strip(lower(probe.date_filter))
        IN  /\ probe.out =
                  IF df \in Keywords THEN KeywordBranch(df, ProbeToday)
                  ELSE IF last_n_match(df, lit_day) THEN LastDaysBranch(df, ProbeToday)
                  ELSE IF last_n_match(df, lit_week) THEN LastWeeksBranch(df, ProbeToday)
                  ELSE IF last_n_match(df, lit_month) THEN LastMonthsBranch(df, ProbeToday)
                  ELSE IF date_range_match(df) THEN DateRangeBranch(df)
                  ELSE IF specific_date_match(df) THEN SpecificDateBranch(df)
                  ELSE IF since_date_match(df) THEN SinceBranch(df, ProbeToday)
                  ELSE IF before_date_match(df) THEN BeforeBranch(df, ProbeToday)
                  ELSE DefaultBranch(ProbeToday)
            /\ \A d1, d2 \in DateLits :
                  probe.date_filter = RangeOf(d1, d2) =>
                      /\ specific_date_match(df)
                      /\ probe.out = Ok(d1, d2)
                      /\ d1 # d2 => probe.out # Ok(d1, d1)
C26_Witness ==
    /\ probe.pc = "returned"
    /\ probe.date_filter = <<"2", "0", "2", "5", "-", "0", "3", "-", "0", "1", " ", "t", "o", " ", "2", "0", "2", "5", "-", "0", "3", "-", "3", "1">>
    /\ specific_date_match(probe.date_filter)
    /\ SpecificDateBranch(probe.date_filter) = Ok(<<"2", "0", "2", "5", "-", "0", "3", "-", "0", "1">>, <<"2", "0", "2", "5", "-", "0", "3", "-", "0", "1">>)
    /\ probe.out = Ok(<<"2", "0", "2", "5", "-", "0", "3", "-", "0", "1">>, <<"2", "0", "2", "5", "-", "0", "3", "-", "3", "1">>)

\* texts put after an expression; none completes an earlier form
Trailing == {<<" ", "a", "g", "o">>, <<"x", "y", "z">>, <<"T", "1", "0", ":", "0", "0", ":", "0", "0">>}
\* the expressions of the prefix-matched forms
PrefixExprs == LastNExprs \cup ExplicitExprs
ElementsOf(seq) == {seq[k] : k \in 1..Len(seq)}
\* the creation-date value of a record is missing, empty, not a text, or a
\* text that is no date
Malformed(item, date_field) ==
    LET v == item_date_str(item, date_field)
    IN  \/ v.t # "str"
        \/ v.s = <<>>
        \/ ~parse(v.s).ok
\* the creation timestamp of a record that has one
CreatedAt(item, date_field) == parse(item_date_str(item, date_field).s)
\* the bounds the expression of the call resolves to
ProbeBounds == _parse_date_filter(probe.date_filter, probe.now)

\* both bounds of the call are days of the calendar
ProbeBoundsAreDays ==
    parse(ProbeBounds.from_date).ok /\ parse(ProbeBounds.to_date).ok

\* C11 (as claimed): a record with a creation date is kept exactly when the
\* calendar day of that date lies between the from day and the to day, both
\* included, whatever its time of day.
C11_InclusiveDays ==
    (probe.pc = "returned" /\ ProbeBoundsAreDays) =>
        \A item \in ElementsOf(probe.items) :
            ~Malformed(item, probe.date_field) =>
                (item \in ElementsOf(probe.filtered.value)
                    <=> /\ OrdOf(ProbeBounds.from_date) <= CreatedAt(item, probe.date_field).ord
                        /\ CreatedAt(item, probe.date_field).ord <= OrdOf(ProbeBounds.to_date))

\* C11 (what holds): a record with a creation date is kept exactly when its
\* timestamp carries no time zone and lies between midnight of the from day and
\* midnight of the to day; on the to day only a record created at 00:00:00 is.
C11_MidnightToMidnight ==
    (probe.pc = "returned" /\ ProbeBoundsAreDays) =>
        \A item \in ElementsOf(probe.items) :
            ~Malformed(item, probe.date_field) =>
                LET d == CreatedAt(item, probe.date_field)
                IN  item \in ElementsOf(probe.filtered.value)
                        <=> /\ ~d.aware
                            /\ OrdOf(ProbeBounds.from_date) <= d.ord
                            /\ \/ d.ord < OrdOf(ProbeBounds.to_date)
                               \/ d.ord = OrdOf(ProbeBounds.to_date) /\ d.secs = 0
C11_Witness ==
    /\ probe.pc = "returned"
    /\ probe.date_filter = kw_last_month
    /\ probe.now = Clock(Date(2025, 1, 15))
    /\ probe.date_field = CreatedDateField
    /\ probe.items = <<Dated(3, <<"2", "0", "2", "4", "-", "1", "2", "-", "3", "1", "T", "1", "5", ":", "3", "0", ":", "0", "0">>), Dated(2, <<"2", "0", "2", "4", "-", "1", "2", "-", "0", "1", "T", "0", "0", ":", "0", "0", ":", "0", "0">>)>>
    /\ probe.filtered.value = <<Dated(2, <<"2", "0", "2", "4", "-", "1", "2", "-", "0", "1", "T", "0", "0", ":", "0", "0", ":", "0", "0">>)>>

\* the records of a list whose creation-date value is well formed
WellFormed(items, date_field) ==
    SelectSeq(items, LAMBDA item : ~Malformed(item, date_field))
\* C12: a record whose creation-date value is missing, empty or not parseable
\* as a date is left out of the result and raises nothing (the call fails only
\* when resolving the expression does), and leaving it out changes nothing for
\* the other records: the result is that of the list without such records.
C12_MalformedDropped ==
    probe.pc # "call" =>
        /\ probe.filtered.exc = ProbeBounds.exc
        /\ probe.pc = "returned" <=> ProbeBounds.exc = "none"
        /\ probe.pc = "returned" =>
              /\ \A item \in ElementsOf(probe.filtered.value) :
                    ~Malformed(item, probe.date_field)
              /\ probe.filtered.value =
                    _filter_by_date(WellFormed(probe.items, probe.date_field),
                                    probe.date_field, probe.date_filter, probe.now).value
              /\ \A item \in ElementsOf(probe.items) :
                    item \in ElementsOf(probe.filtered.value)
                        <=> <<item>> = _filter_by_date(<<item>>, probe.date_field,
                                                       probe.date_filter, probe.now).value
C12_Witness ==
    /\ probe.pc = "returned"
    /\ probe.date_filter = <<"2", "0", "2", "4", "-", "1", "2", "-", "0", "1", " ", "t", "o", " ", "2", "0", "2", "4", "-", "1", "2", "-", "3", "1">>
    /\ probe.date_field = CreatedDateField
    /\ probe.items = <<Dated(8, <<"n", "/", "a">>), Dated(1, <<"2", "0", "2", "4", "-", "1", "2", "-", "1", "4">>)>>
    /\ probe.filtered = Returned(<<Dated(1, <<"2", "0", "2", "4", "-", "1", "2", "-", "1", "4">>)>>)

\* res is items with some elements left out: the kept positions, in order
IsSubsequence(res, items) ==
    \E f \in [1..Len(res) -> 1..Len(items)] :
        /\ \A j, k \in 1..Len(res) : j < k => f[j] < f[k]
        /\ \A k \in 1..Len(res) : res[k] = items[f[k]]
\* C29: _filter_by_date returns an order-preserving subsequence of its input -
\* every returned record is an input record, unchanged, in the input's order
\* and no more often than in the input - and leaves the input list as it was.
C29_Subsequence ==
    /\ [](probe.pc = "returned" =>
            /\ IsSubsequence(probe.filtered.value, probe.items)
            /\ Len(probe.filtered.value) <= Len(probe.items)
            /\ ElementsOf(probe.filtered.value) \subseteq ElementsOf(probe.items))
    /\ [][probe'.items = probe.items]_vars
C29_Witness ==
    /\ probe.pc = "returned"
    /\ probe.date_filter = <<"2", "0", "2", "4", "-", "1", "2", "-", "0", "1", " ", "t", "o", " ", "2", "0", "2", "4", "-", "1", "2", "-", "3", "1">>
    /\ probe.date_field = CreatedDateField
    /\ probe.items = <<Dated(2, <<"2", "0", "2", "4", "-", "1", "2", "-", "0", "1", "T", "0", "0", ":", "0", "0", ":", "0", "0">>), Dated(1, <<"2", "0", "2", "4", "-", "1", "2", "-", "1", "4">>)>>
    /\ probe.filtered.value = probe.items

\* the expressions of the direct calls that carry a date no calendar has
BadDate == <<"2", "0", "2", "5", "-", "1", "3", "-", "4", "5">>
BadBoundExprs == {BadDate, SinceOf(BadDate), RangeOf(<<"2", "0", "2", "4", "-", "1", "2", "-", "0", "1">>, BadDate)}
\* C28: an explicit date is returned as written, without calendar validation
\* (2025-13-45 passes through); when such a bound does not parse as a date, or
\* comparing a record's date with a bound raises, client-side filtering raises
\* nothing and drops the record - an unparseable bound gives the empty result.
C28_UnvalidatedBounds ==
    probe.pc # "call" =>
        /\ probe.date_filter = BadDate => ProbeBounds = Ok(BadDate, BadDate)
        /\ probe.date_filter = SinceOf(BadDate) =>
              ProbeBounds = Ok(BadDate, strftime(ProbeToday))
        /\ probe.date_filter = RangeOf(<<"2", "0", "2", "4", "-", "1", "2", "-", "0", "1">>, BadDate) =>
              ProbeBounds = Ok(<<"2", "0", "2", "4", "-", "1", "2", "-", "0", "1">>, BadDate)
        /\ probe.date_filter \in BadBoundExprs =>
              (probe.pc = "returned" /\ probe.filtered = Returned(<<>>))
        /\ probe.pc = "returned" =>
              \A item \in ElementsOf(probe.items) :
                  (/\ ~Malformed(item, probe.date_field)
                   /\ CreatedAt(item, probe.date_field).aware)
                      => item \notin ElementsOf(probe.filtered.value)
C28_Witness ==
    /\ probe.pc = "returned"
    /\ probe.date_filter = RangeOf(<<"2", "0", "2", "4", "-", "1", "2", "-", "0", "1">>, BadDate)
    /\ probe.date_field = CreatedDateField
    /\ probe.items = <<Dated(1, <<"2", "0", "2", "4", "-", "1", "2", "-", "1", "4">>), Dated(4, <<"2", "0", "2", "4", "-", "1", "2", "-", "2", "0", "T", "0", "8", ":", "0", "0", ":", "0", "0", "Z">>)>>
    /\ probe.filtered = Returned(<<>>)

StepsOf(rq) == {rq.steps[k] : k \in 1..Len(rq.steps)}
DetailsCalls(rq) == SelectSeq(rq.calls, LAMBDA c : c.kind = "details")
CeilDiv(n, d) == (n + d - 1) \div d
RECURSIVE Responses(_)
\* the records the answered detail calls returned, in call order
Responses(cs) ==
    IF cs = <<>> THEN <<>>
    ELSE (IF cs[1].status = "ok" THEN RecordsOf(cs[1].ids) ELSE <<>>) \o Responses(Tail(cs))
\* every batch of the request was fetched and answered
AllFetched(rq) ==
    /\ \A k \in 1..Len(rq.calls) : rq.calls[k].status = "ok"
    /\ Len(DetailsCalls(rq)) = CeilDiv(Len(rq.work_item_ids), 200)
    /\ rq.details = Responses(DetailsCalls(rq))
\* the fetched records whose creation date lies in the interval that the
\* expression resolves to at the time the request read the clock
KeptByDate(rq) ==
    LET bounds == _parse_date_filter(rq.date_filter.v, rq.now)
    IN  SelectSeq(rq.details, LAMBDA item :
            KeepItem(item, CreatedDateField, bounds.from_date, bounds.to_date))

C3_ServerSideAlways ==
    \A r \in Reqs :
        LET rq == req[r]
        IN  /\ ~(rq.date_filter_wiql # <<>> /\ TruthyChars(rq.client_side_date_filter))
            /\ (/\ rq.pc # "idle"
                /\ rq.project_to_use # ""
                /\ ~Truthy(rq.query_string)
                /\ TruthyChars(rq.date_filter)) =>
                  LET bounds == _parse_date_filter(rq.date_filter.v, rq.now)
                  IN  /\ rq.calls # <<>>
                      /\ bounds.exc = "none"
                      /\ Contains(rq.calls[1].query,
                            <<"AND [System.CreatedDate] >= '", Str(bounds.from_date), "'">>)
                      /\ Contains(rq.calls[1].query,
                            <<"[System.CreatedDate] <= '", Str(bounds.to_date), "'">>)
                      /\ ~rq.client_side_date_filter.some
                      /\ "filter" \notin StepsOf(rq)
                      /\ rq.pc = "returned" =>
                            /\ rq.result = Responses(DetailsCalls(rq))
                            /\ Len(rq.result) = Len(rq.work_item_ids)

\* C3 (what holds): the same, for the requests that submit a query - those in
\* which the resolver does not raise.
C3_ServerSideWhenSubmitted ==
    \A r \in Reqs :
        LET rq == req[r]
        IN  /\ ~(rq.date_filter_wiql # <<>> /\ TruthyChars(rq.client_side_date_filter))
            /\ (rq.calls # <<>> /\ ~Truthy(rq.query_string) /\ TruthyChars(rq.date_filter)) =>
                  LET bounds == _parse_date_filter(rq.date_filter.v, rq.now)
                  IN  /\ bounds.exc = "none"
                      /\ Contains(rq.calls[1].query,
                            <<"AND [System.CreatedDate] >= '", Str(bounds.from_date), "'">>)
                      /\ Contains(rq.calls[1].query,
                            <<"[System.CreatedDate] <= '", Str(bounds.to_date), "'">>)
                      /\ ~rq.client_side_date_filter.some
                      /\ "filter" \notin StepsOf(rq)
                      /\ rq.pc = "returned" =>
                            /\ rq.result = Responses(DetailsCalls(rq))
                            /\ Len(rq.result) = Len(rq.work_item_ids)
C3_Witness ==
    \E r \in Reqs :
        /\ req[r].pc = "returned"
        /\ req[r].query_string = None
        /\ req[r].date_filter = Some(kw_last_month)
        /\ req[r].now = Clock(Date(2025, 1, 15))
        /\ Contains(req[r].query, <<"AND [System.CreatedDate] >= '", "2024-12-01", "'", " AND ",
                                    "[System.CreatedDate] <= '", "2024-12-31", "'">>)
        /\ Len(req[r].result) = MaxIds

\* C4: n > 0 identifiers are fetched in ceil(n/200) detail calls, call k
\* (from 0) carrying the identifiers at positions 200k .. min(200k+199, n-1)
\* in order, and the batch responses are concatenated in batch order.
C4_Batching ==
    \A r \in Reqs :
        LET rq == req[r]
            n  == Len(rq.work_item_ids)
            d  == DetailsCalls(rq)
        IN  /\ \A k \in 1..Len(d) :
                  /\ d[k].ids = SubSeq(rq.work_item_ids, 200 * (k - 1) + 1,
                                       IF 200 * k < n THEN 200 * k ELSE n)
                  /\ Len(d[k].ids) <= 200
                  /\ k < CeilDiv(n, 200) => Len(d[k].ids) = 200
            /\ Len(d) <= CeilDiv(n, 200)
            /\ Len(rq.calls) = Len(d) + (IF rq.calls = <<>> THEN 0 ELSE 1)
            /\ rq.pc = "details" => rq.details = Responses(d)
            /\ (rq.pc = "returned" /\ n > 0) =>
                  /\ Len(d) = CeilDiv(n, 200)
                  /\ rq.details = Responses(d)
                  /\ rq.details = RecordsOf(rq.work_item_ids)
                  /\ rq.result = IF TruthyChars(rq.client_side_date_filter)
                                 THEN KeptByDate(rq) ELSE rq.details
C4_Witness ==
    \E r \in Reqs :
        /\ req[r].pc = "returned"
        /\ Len(req[r].work_item_ids) = MaxIds
        /\ Len(DetailsCalls(req[r])) = 3
        /\ Len(DetailsCalls(req[r])[1].ids) = 200
        /\ Len(DetailsCalls(req[r])[2].ids) = 200
        /\ Len(DetailsCalls(req[r])[3].ids) = MaxIds - 400
        /\ req[r].result = RecordsOf(req[r].work_item_ids)

\* C5: when the query submission or a detail batch fails the request fails as
\* a whole - nothing is returned (the records of earlier batches are not), the
\* failed call is the last remote call of the request, and no remote call is
\* issued twice.
C5_FailsAsAWhole ==
    \A r \in Reqs :
        LET rq == req[r]
            c  == rq.calls
        IN  /\ \A k \in 1..Len(c) :
                  c[k].status = "failed" =>
                      /\ k = Len(c)
                      /\ rq.pc = "raised"
                      /\ rq.exc = "HTTPError"
            /\ \A k \in 1..Len(c) : c[k].status = "pending" => k = Len(c)
            /\ \A j, k \in 1..Len(c) :
                  j < k => ~(c[j].kind = c[k].kind /\ c[j].ids = c[k].ids)
            /\ rq.pc = "raised" => rq.result = <<>>
            /\ rq.pc = "returned" => \A k \in 1..Len(c) : c[k].status = "ok"
C5_Witness ==
    \E r \in Reqs :
        /\ req[r].pc = "raised"
        /\ Len(req[r].calls) = 3
        /\ req[r].calls[2].status = "ok"
        /\ req[r].calls[3].status = "failed"
        /\ Len(req[r].details) = 200
        /\ req[r].result = <<>>

\* C6: with neither a project argument nor a configured default project the
\* request fails with the precondition error before any remote call.
C6_MissingProject ==
    \A r \in Reqs :
        LET rq == req[r]
        IN  (rq.pc # "idle" /\ ~Truthy(rq.project) /\ tool.project = "") =>
              /\ rq.pc = "raised"
              /\ rq.exc = "ValueError"
              /\ rq.calls = <<>>
              /\ rq.steps = <<>>
C6_Witness ==
    \E r \in Reqs :
        /\ req[r].pc = "raised"
        /\ req[r].project = None
        /\ tool.project = ""
        /\ req[r].date_filter = Some(kw_last_month)
        /\ req[r].calls = <<>>

\* the query submission of the request was answered with no identifiers
EmptyAnswer(rq) ==
    /\ rq.calls # <<>>
    /\ rq.calls[1].status = "ok"
    /\ rq.work_item_ids = <<>>
\* C7: when the query returns no identifiers the request returns the empty
\* list at once - no detail call is made and no client-side filtering runs.
C7_EmptyIds ==
    \A r \in Reqs :
        LET rq == req[r]
        IN  EmptyAnswer(rq) =>
              /\ rq.pc = "returned"
              /\ rq.result = <<>>
              /\ Len(rq.calls) = 1
              /\ StepsOf(rq) \cap {"batch", "filter"} = {}
              /\ rq.query_string.some /\ rq.query_string.v # "" => StepsOf(rq) = {"submit"}
C7_Witness ==
    \E r \in Reqs :
        /\ EmptyAnswer(req[r])
        /\ req[r].pc = "returned"
        /\ req[r].query_string = Some(RawQuery)
        /\ TruthyChars(req[r].client_side_date_filter)

\* the query text has an equality clause on the work item type
HasTypeClause(q) ==
    \E k \in 1..Len(q) : q[k] = "[System.WorkItemType] = '" /\ k + 2 <= Len(q) /\ q[k + 2] = "'"
\* C8: without a raw query the generated query always has the equality clause
\* on the team project with the project in use, and has a WorkItemType
\* equality clause exactly when a (non-empty) work_item_type was given.
C8_ProjectAndTypeClauses ==
    \A r \in Reqs :
        LET rq == req[r]
        IN  (rq.calls # <<>> /\ ~Truthy(rq.query_string)) =>
              LET q == rq.calls[1].query
                  project_in_use == IF rq.project.some /\ rq.project.v # ""
                                    THEN rq.project.v ELSE tool.project
              IN  /\ \E k \in 1..Len(q) :
                        /\ k + 2 <= Len(q)
                        /\ q[k] = SelectFrom
                        /\ q[k + 1] = project_in_use
                        /\ q[k + 2] = "'"
                  /\ project_in_use # ""
                  /\ HasTypeClause(q) <=> (rq.work_item_type.some /\ rq.work_item_type.v # "")
                  /\ (rq.work_item_type.some /\ rq.work_item_type.v # "") =>
                        Contains(q, <<" AND ", "[System.WorkItemType] = '", rq.work_item_type.v, "'">>)
C8_Witness ==
    \E r \in Reqs :
        /\ req[r].pc = "wiql"
        /\ req[r].query_string = None
        /\ req[r].project = None
        /\ tool.project = "Contoso"
        /\ req[r].work_item_type = Some("Bug")
        /\ req[r].state = Some("Active")
        /\ req[r].date_filter = Some(kw_last_month)
        /\ req[r].now = Clock(Date(2025, 3, 31))
        /\ req[r].query =
              <<SelectFrom, "Contoso", "'", " AND ", "[System.WorkItemType] = '", "Bug", "'",
                " AND ", "[System.State] = '", "Active", "'", " ",
                "AND [System.CreatedDate] >= '", "2025-02-01", "'", " AND ",
                "[System.CreatedDate] <= '", "2025-02-28", "'", OrderBy>>

\* C15: 'last month' resolves to the first and the last day of the calendar
\* month preceding now's month (the day after the last one is the first day of
\* now's month; January rolls back to December of the previous year), and
\* these two days are the bounds of the CreatedDate range clause of the
\* generated query.
C15_LastMonthInQuery ==
    \A r \in Reqs :
        LET rq == req[r]
            today == Date(rq.now.year, rq.now.month, rq.now.day)
            m == PrecedingMonth(today)
        IN  (/\ rq.pc # "idle"
             /\ rq.project_to_use # ""
             /\ ~Truthy(rq.query_string)
             /\ rq.date_filter.some
             /\ strip(lower(rq.date_filter.v)) = kw_last_month) =>
                /\ rq.pc # "raised" \/ rq.exc = "HTTPError"
                /\ rq.calls # <<>>
                /\ rq.calls[1].kind = "wiql"
                /\ toordinal(m.last) + 1 = toordinal(Date(today.year, today.month, 1))
                /\ m.first.day = 1
                /\ Contains(rq.calls[1].query,
                      <<"AND [System.CreatedDate] >= '", Str(strftime(m.first)), "'", " AND ",
                        "[System.CreatedDate] <= '", Str(strftime(m.last)), "'">>)
C15_Witness ==
    \E r \in Reqs :
        /\ req[r].pc = "wiql"
        /\ req[r].query_string = None
        /\ req[r].project = Some("Demo")
        /\ req[r].work_item_type = None
        /\ req[r].state = None
        /\ req[r].date_filter = Some(kw_last_month)
        /\ req[r].now = Clock(Date(2025, 1, 15))
        /\ req[r].calls[1].query =
              <<SelectFrom, "Demo", "'", " ",
                "AND [System.CreatedDate] >= '", "2024-12-01", "'", " AND ",
                "[System.CreatedDate] <= '", "2024-12-31", "'", OrderBy>>

\* the position of the first piece of the query text equal to a given one, 0
\* when there is none
PieceAt(q, piece) ==
    IF \E k \in 1..Len(q) : q[k] = piece
    THEN SetMin({k \in 1..Len(q) : q[k] = piece})
    ELSE 0
\* the query text has an equality clause on the state
HasStateClause(q) ==
    \E k \in 1..Len(q) : q[k] = "[System.State] = '" /\ k + 2 <= Len(q) /\ q[k + 2] = "'"
\* C22: without a raw query the generated query has a State equality clause
\* exactly when a (non-empty) state was given, the optional clauses come in the
\* order work-item type, state, creation-date bounds, and the text ends with
\* the descending sort by creation date.
C22_StateOrderSort ==
    \A r \in Reqs :
        LET rq == req[r]
        IN  (rq.calls # <<>> /\ ~Truthy(rq.query_string)) =>
              LET q == rq.calls[1].query
                  type_at  == PieceAt(q, "[System.WorkItemType] = '")
                  state_at == PieceAt(q, "[System.State] = '")
                  from_at  == PieceAt(q, "AND [System.CreatedDate] >= '")
                  to_at    == PieceAt(q, "[System.CreatedDate] <= '")
                  present  == {type_at, state_at, from_at, to_at} \ {0}
              IN  /\ HasStateClause(q) <=> (rq.state.some /\ rq.state.v # "")
                  /\ (rq.state.some /\ rq.state.v # "") =>
                        Contains(q, <<" AND ", "[System.State] = '", rq.state.v, "'">>)
                  /\ (type_at # 0 /\ state_at # 0) => type_at < state_at
                  /\ (type_at # 0 /\ from_at # 0) => type_at < from_at
                  /\ (state_at # 0 /\ from_at # 0) => state_at < from_at
                  /\ from_at # 0 => from_at < to_at
                  /\ q[1] = SelectFrom
                  /\ \A k \in present : 3 < k /\ k < Len(q)
                  /\ q[Len(q)] = " ORDER BY [System.CreatedDate] DESC"
                  /\ PieceAt(q, " ORDER BY [System.CreatedDate] DESC") = Len(q)
C22_Witness ==
    \E r \in Reqs :
        /\ req[r].pc = "wiql"
        /\ req[r].query_string = Some("")
        /\ req[r].project = Some("Demo")
        /\ req[r].work_item_type = Some("Bug")
        /\ req[r].state = Some("Active")
        /\ req[r].date_filter = Some(kw_last_month)
        /\ req[r].now = Clock(Date(2025, 1, 15))
        /\ PieceAt(req[r].query, "[System.WorkItemType] = '") = 5
        /\ PieceAt(req[r].query, "[System.State] = '") = 9
        /\ PieceAt(req[r].query, "AND [System.CreatedDate] >= '") = 13
        /\ PieceAt(req[r].query, OrderBy) = Len(req[r].query)

\* the place of a step in the claimed chain
Rank(step) ==
    CASE step = "resolve" -> 1
      [] step = "build"   -> 2
      [] step = "submit"  -> 3
      [] step = "batch"   -> 4
      [] step = "filter"  -> 5
\* at most one remote call is outstanding, and it is the last one issued
OneAtATime(rq) ==
    \A k \in 1..Len(rq.calls) : rq.calls[k].status = "pending" => k = Len(rq.calls)
\* C23 (as claimed): in every request with a date expression the steps come in
\* the order resolve, build, submit, batches one at a time, filter; the
\* expression is resolved before any remote call, with and without a raw query.
C23_StrictOrder ==
    \A r \in Reqs :
        LET rq == req[r]
        IN  (TruthyChars(rq.date_filter) /\ rq.project_to_use # "") =>
              /\ \A j, k \in 1..Len(rq.steps) :
                    j < k => \/ Rank(rq.steps[j]) < Rank(rq.steps[k])
                             \/ rq.steps[j] = "batch" /\ rq.steps[k] = "batch"
              /\ rq.calls # <<>> => (rq.steps # <<>> /\ rq.steps[1] = "resolve")
              /\ OneAtATime(rq)

\* C23 (what holds): without a raw query the steps are resolve, build, submit,
\* then the batches one at a time, and nothing is filtered; with a raw query
\* they are submit, the batches one at a time, and only then resolve and filter -
\* the expression is resolved after every remote call has been answered.
C23_OrderPerPath ==
    \A r \in Reqs :
        LET rq == req[r]
            batches == [k \in 1..Len(DetailsCalls(rq)) |-> "batch"]
        IN  (TruthyChars(rq.date_filter) /\ rq.project_to_use # "") =>
              /\ OneAtATime(rq)
              /\ ~Truthy(rq.query_string) =>
                    \/ rq.steps = <<"resolve">> /\ rq.pc = "raised" /\ rq.calls = <<>>
                    \/ rq.steps = <<"resolve", "build", "submit">> \o batches
              /\ Truthy(rq.query_string) =>
                    \/ rq.steps = <<"submit">> \o batches
                    \/ /\ rq.steps = <<"submit">> \o batches \o <<"resolve">>
                       /\ rq.pc = "raised"
                       /\ AllFetched(rq)
                    \/ /\ rq.steps = <<"submit">> \o batches \o <<"resolve", "filter">>
                       /\ rq.pc = "returned"
                       /\ AllFetched(rq)
C23_Witness ==
    \E r \in Reqs :
        /\ req[r].pc = "raised"
        /\ req[r].exc = "ValueError"
        /\ req[r].query_string = Some(RawQuery)
        /\ req[r].date_filter = Some(<<"l", "a", "s", "t", " ", "1", " ", "m", "o", "n", "t", "h", "s">>)
        /\ req[r].now = Clock(Date(2025, 3, 31))
        /\ req[r].steps = <<"submit", "batch", "batch", "batch", "resolve">>
        /\ Len(req[r].calls) = 4

\* C25: provided every remote call is eventually answered, with a response or
\* a failure, every request eventually returns or fails, and it makes at most
\* 1 + ceil(n/200) remote calls, n being the number of identifiers the query
\* submission returned.
C25_Terminates ==
    /\ [](\A r \in Reqs :
            /\ Len(req[r].calls) <= 1 + CeilDiv(Len(req[r].work_item_ids), 200)
            /\ req[r].pc \in {"returned", "raised"} =>
                  \A k \in 1..Len(req[r].calls) : req[r].calls[k].status # "pending")
    /\ \A r \in Reqs :
          (req[r].pc \in {"wiql", "details"}) ~> (req[r].pc \in {"returned", "raised"})
C25_Witness ==
    \E r \in Reqs :
        /\ req[r].pc = "returned"
        /\ Len(req[r].work_item_ids) = MaxIds
        /\ Len(req[r].calls) = 1 + CeilDiv(MaxIds, 200)
        /\ req[r].query_string = None
        /\ req[r].date_filter = NoneChars

(***************************************************************************)
(* Properties of concurrent requests (under SpecConc)                      *)
(***************************************************************************)
\* what a request that runs alone submits, fetches and returns, from its own
\* arguments, the tool's configuration and the responses to its own calls
AsAlone(rq) ==
    LET project_in_use == IF rq.project.some /\ rq.project.v # ""
                          THEN rq.project.v ELSE tool.project
        raw == rq.query_string.some /\ rq.query_string.v # ""
        d == DetailsCalls(rq)
        n == Len(rq.work_item_ids)
    IN  /\ rq.pc # "idle" => rq.project_to_use = project_in_use
        /\ (rq.pc # "idle" /\ project_in_use = "") => (rq.pc = "raised" /\ rq.calls = <<>>)
        /\ rq.calls # <<>> =>
              /\ rq.calls[1].kind = "wiql"
              /\ rq.calls[1].query =
                    IF raw THEN <<rq.query_string.v>>
                    ELSE BuildQuery(project_in_use, rq.work_item_type, rq.state,
                            IF TruthyChars(rq.date_filter)
                            THEN DateFilterWiql(_parse_date_filter(rq.date_filter.v, rq.now))
                            ELSE <<>>)
        /\ \A k \in 1..Len(d) :
              d[k].ids = SubSeq(rq.work_item_ids, 200 * (k - 1) + 1,
                                IF 200 * k < n THEN 200 * k ELSE n)
        /\ rq.work_item_ids \in {IdList(m) : m \in ConcIdCounts}
        /\ rq.pc = "details" => rq.details = Responses(d)
        /\ rq.pc = "returned" =>
              /\ rq.details = RecordsOf(rq.work_item_ids)
              /\ rq.result = IF raw /\ TruthyChars(rq.date_filter)
                             THEN KeptByDate(rq) ELSE rq.details
\* C24: requests running concurrently on one instance do not interfere - each
\* one's query, batches and records are those it has when running alone
\* against the same responses, a step of one request leaves the others as they
\* are, and no step changes the tool's configuration.
C24_NoInterference ==
    /\ [](\A r \in Reqs : AsAlone(req[r]))
    /\ [][/\ tool' = tool
          /\ \A r, s \in Reqs : (r # s /\ req'[r] # req[r]) => req'[s] = req[s]]_vars
C24_Witness ==
    /\ req[1].pc = "details"
    /\ req[1].project = Some("Demo")
    /\ Len(req[1].calls) = 3
    /\ req[1].calls[3].status = "pending"
    /\ req[2].pc = "returned"
    /\ req[2].query_string = Some(RawQuery)
    /\ req[2].project_to_use = "Contoso"
    /\ Len(req[2].details) = batch_size + 1
    /\ req[2].result # <<>>
    /\ req[2].result # req[2].details

(***************************************************************************)
(* Properties of the client wrapper (under SpecClient)                     *)
(***************************************************************************)
\* C30: DevOpsMCPClient.list_work_items never raises. It returns the empty
\* list when the client is not initialised (azdo_tool unset, is_initialized
\* false) and whenever the tool's list_work_items raised (missing project,
\* failed submission, failed batch); otherwise it returns what the tool returned.
C30_NeverRaises ==
    /\ client.pc \in {"idle", "calling", "returned"}
    /\ client.is_initialized <=> client.azdo_tool.some
    /\ req[ClientReq].pc \in {"wiql", "details"} <=> client.pc = "calling"
    /\ req[ClientReq].pc \in {"raised", "returned"} => client.pc = "returned"
    /\ client.pc = "returned" =>
          client.result = IF req[ClientReq].pc = "returned"
                          THEN req[ClientReq].result ELSE <<>>
    /\ (client.pc = "returned" /\ req[ClientReq].pc = "idle") => ~client.is_initialized
C30_Witness ==
    /\ client.pc = "returned"
    /\ client.is_initialized
    /\ req[ClientReq].pc = "raised"
    /\ req[ClientReq].exc = "HTTPError"
    /\ Len(req[ClientReq].details) = batch_size
    /\ client.result = <<>>
====
